---- MODULE Spec2Model ----
(***************************************************************************)
(* Email ingestion and ticket correlation of the helpdesk API:            *)
(*   lib/imap.ts                 getEmails, the single-flight guard        *)
(*   lib/services/auth.service.ts  AuthService and ImapService             *)
(*   lib/nodemailer/ticket/comment.ts  sendComment                         *)
(* Text values (Message-IDs, thread ids, subjects, header values) are      *)
(* sequences of one-character strings, so that trimming, bracket           *)
(* stripping, splitting and prefix removal are computed as the code        *)
(* computes them.                                                          *)
(***************************************************************************)
EXTENDS Integers, Sequences, FiniteSets, TLC

VARIABLES
    tickets,      \* prisma.ticket: sequence of Ticket rows, id = index
    comments,     \* prisma.comment: sequence of Comment rows, id = index
    imapEmails,   \* prisma.imap_Email: sequence of raw-email rows
    deliveries,   \* sendWebhookNotification calls made: set of records
    tasks,        \* invocations of the simpleParser callback / processEmail
    unhandled,    \* a promise was rejected and nobody handles it
    faults,       \* errors the environment has injected so far
    isFetching,   \* lib/imap.ts: module-level lock
    calls,        \* getEmails invocations, one record per call slot
    lastCall,     \* what the most recent getEmails call to end logged
    unseen,       \* IMAP server: per mailbox, the messages without \Seen
    queues,       \* prisma.emailQueue rows (token fields are updated)
    provider,     \* OAuth provider: per mailbox, the grant's refresh tokens
    http,         \* the HTTP request the server is handling, and its reply
    now           \* Date.now() in seconds

\* no request at hand
NoRequest == [stage |-> "none"]

storeVars == <<tickets, comments, imapEmails, deliveries>>
schedVars == <<isFetching, calls, lastCall, unseen, queues, provider, http, now>>

\* errors of the store, the parser, the provider and the mail server that
\* one run injects
MaxFaults == 1
Fault == faults < MaxFaults /\ faults' = faults + 1

vars == <<tickets, comments, imapEmails, deliveries, tasks, unhandled, faults,
          isFetching, calls, lastCall, unseen, queues, provider, http, now>>

----------------------------------------------------------------------------
(* Text as sequences of characters *)

\* null / undefined of a string-valued field
Null == <<"null">>

Ws == {" "}

RECURSIVE TrimLeft(_)
TrimLeft(s) ==
    IF s # <<>> /\ Head(s) \in Ws THEN TrimLeft(Tail(s)) ELSE s

RECURSIVE TrimRight(_)
TrimRight(s) ==
    IF s # <<>> /\ s[Len(s)] \in Ws
    THEN TrimRight(SubSeq(s, 1, Len(s) - 1)) ELSE s

\* String.prototype.trim
Trim(s) == TrimRight(TrimLeft(s))

\* String.prototype.toLowerCase on the letters the model uses
Lower(c) ==
    CASE c = "R" -> "r" [] c = "E" -> "e" [] c = "F" -> "f"
      [] c = "W" -> "w" [] c = "D" -> "d" [] c = "H" -> "h"
      [] c = "I" -> "i" [] OTHER -> c

LowerStr(s) == [i \in 1..Len(s) |-> Lower(s[i])]

\* s starts with p, ignoring letter case
StartsWithI(s, p) ==
    /\ Len(s) >= Len(p)
    /\ LowerStr(SubSeq(s, 1, Len(p))) = LowerStr(p)

\* Prisma { contains: needle, mode: "insensitive" }
ContainsI(hay, needle) ==
    \E i \in 1..(Len(hay) - Len(needle) + 1) :
        LowerStr(SubSeq(hay, i, i + Len(needle) - 1)) = LowerStr(needle)

\* String.prototype.split(/\s+/).filter(Boolean)
RECURSIVE SplitWs(_, _)
SplitWs(s, cur) ==
    IF s = <<>> THEN (IF cur = <<>> THEN <<>> ELSE <<cur>>)
    ELSE IF Head(s) \in Ws
         THEN (IF cur = <<>> THEN <<>> ELSE <<cur>>) \o SplitWs(Tail(s), <<>>)
         ELSE SplitWs(Tail(s), Append(cur, Head(s)))

Range(f) == {f[i] : i \in DOMAIN f}

----------------------------------------------------------------------------
(* normalizeMessageId -- auth.service.ts:94 *)

normalizeMessageId(messageId) ==
    IF messageId = Null \/ messageId = <<>> THEN Null
    ELSE LET t == Trim(messageId)
             a == IF t # <<>> /\ Head(t) = "<" THEN Tail(t) ELSE t
         IN  IF a # <<>> /\ a[Len(a)] = ">"
             THEN SubSeq(a, 1, Len(a) - 1) ELSE a

----------------------------------------------------------------------------
(* mailparser Headers: a header is absent, a string, or a structured value *)

Absent == [t |-> "none", v |-> <<>>]
Obj    == [t |-> "obj",  v |-> <<>>]
Str(s) == [t |-> "str",  v |-> s]

IsString(h) == h.t = "str"
\* JavaScript truthiness of headers.get(...)
Truthy(h) == h.t = "obj" \/ (h.t = "str" /\ h.v # <<>>)

HeaderNames ==
    {"auto-submitted", "x-auto-response-suppress", "x-peppermint-ai",
     "precedence", "x-autoreply", "x-ms-exchange-auto-submissions",
     "x-gm-thrid", "references", "in-reply-to"}

NoHeaders == [h \in HeaderNames |-> Absent]

S_no        == <<"n", "o">>
S_yes       == <<"y", "e", "s">>
S_true      == <<"t", "r", "u", "e">>
S_bulk      == <<"b", "u", "l", "k">>
S_list      == <<"l", "i", "s", "t">>
S_autoreply == <<"a", "u", "t", "o", "_", "r", "e", "p", "l", "y">>
S_All       == <<"A", "l", "l">>
S_NoSubject == <<"N", "o", " ", "S", "u", "b", "j", "e", "c", "t">>

\* isAutoReply taking any X-Peppermint-AI header for the marker
isAutoReplyAnyMarker(headers) ==
    LET autoSubmitted   == headers["auto-submitted"]
        xAutoResponse   == headers["x-auto-response-suppress"]
        xPeppermintAI   == headers["x-peppermint-ai"]
        precedence      == headers["precedence"]
        xAutoReply      == headers["x-autoreply"]
        xMsExchangeAuto == headers["x-ms-exchange-auto-submissions"]
    IN  \/ (IsString(autoSubmitted) /\ autoSubmitted.v # S_no)
        \/ Truthy(xAutoResponse)
        \/ xPeppermintAI # Absent
        \/ (IsString(precedence)
              /\ precedence.v \in {S_bulk, S_list, S_autoreply})
        \/ (IsString(xAutoReply) /\ xAutoReply.v = S_yes)
        \/ Truthy(xMsExchangeAuto)

\* ImapService.isAutoReply -- auth.service.ts:158
isAutoReply(headers) ==
    LET autoSubmitted   == headers["auto-submitted"]
        xAutoResponse   == headers["x-auto-response-suppress"]
        xPeppermintAI   == headers["x-peppermint-ai"]
        precedence      == headers["precedence"]
        xAutoReply      == headers["x-autoreply"]
        xMsExchangeAuto == headers["x-ms-exchange-auto-submissions"]
    IN  \/ (IsString(autoSubmitted) /\ autoSubmitted.v # S_no)
        \/ Truthy(xAutoResponse)
        \/ (IsString(xPeppermintAI) /\ xPeppermintAI.v = S_true)
        \/ (IsString(precedence)
              /\ precedence.v \in {S_bulk, S_list, S_autoreply})
        \/ (IsString(xAutoReply) /\ xAutoReply.v = S_yes)
        \/ Truthy(xMsExchangeAuto)

----------------------------------------------------------------------------
(* Parsed messages (mailparser ParsedMail, the fields processEmail reads) *)

\* from: from.value[0].address, "" when there is none
Msg(from, subject, messageId, gm, irt, refs) ==
    [from      |-> from,
     subject   |-> subject,
     messageId |-> messageId,
     headers   |-> [NoHeaders EXCEPT !["x-gm-thrid"]  = gm,
                                     !["in-reply-to"] = irt,
                                     !["references"]  = refs],
     origin    |-> "customer"]

WithHeader(m, name, val) == [m EXCEPT !.headers[name] = val]

S_hi    == <<"h", "i">>
S_Re_hi == <<"R", "e", ":", " ", "h", "i">>
S_yo    == <<"y", "o">>
Id_a    == <<"a">>
Id_b    == <<"b">>
Id_c    == <<"c">>
Raw_a   == <<"<", "a", ">">>
Raw_b   == <<"<", "b", ">">>
Raw_ca  == <<"<", "c", ">", " ", "<", "a", ">">>
Thr_t   == <<"t">>
Thr_u   == <<"u">>

----------------------------------------------------------------------------
(* sendComment -- lib/nodemailer/ticket/comment.ts:15 *)

S_Re_ == <<"R", "e", ":", " ">>
S_NewCommentOn ==
    <<"N", "e", "w", " ", "c", "o", "m", "m", "e", "n", "t", " ", "o", "n",
      " ", "I", "s", "s", "u", "e", " ", "#">>
S_ref == <<" ", "r", "e", "f", ":", " ", "#">>

\* originalSubject.replace(/^(Re:\s*)+/i, '')
RECURSIVE StripRePrefixes(_)
StripRePrefixes(s) ==
    IF StartsWithI(s, <<"R", "e", ":">>)
    THEN StripRePrefixes(TrimLeft(SubSeq(s, 4, Len(s))))
    ELSE s

\* r.startsWith('<') ? r : `<${r}>`
Bracketed(r) == IF r # <<>> /\ Head(r) = "<" THEN r ELSE <<"<">> \o r \o <<">">>

RECURSIVE JoinSp(_)
JoinSp(rs) ==
    IF rs = <<>> THEN <<>>
    ELSE IF Len(rs) = 1 THEN Head(rs)
    ELSE Head(rs) \o <<" ">> \o JoinSp(Tail(rs))

\* the headers object without the marker of comment.ts:43
sendCommentHeadersNoMarker(options) ==
    (IF options.inReplyTo # Null /\ options.inReplyTo # <<>>
       THEN {<<"In-Reply-To", Bracketed(options.inReplyTo)>>} ELSE {})
    \cup
    (IF Len(options.references) > 0
       THEN {<<"References",
               JoinSp([i \in 1..Len(options.references) |->
                          Bracketed(options.references[i])])>>}
       ELSE {})

\* comment.ts:42-56: the headers object handed to transport.sendMail
sendCommentHeaders(options) ==
    {<<"X-Peppermint-AI", S_true>>}
    \cup
    (IF options.inReplyTo # Null /\ options.inReplyTo # <<>>
       THEN {<<"In-Reply-To", Bracketed(options.inReplyTo)>>} ELSE {})
    \cup
    (IF Len(options.references) > 0
       THEN {<<"References",
               JoinSp([i \in 1..Len(options.references) |->
                          Bracketed(options.references[i])])>>}
       ELSE {})

\* comment.ts:37-39 and 61-68: the mail handed to transport.sendMail
sendComment(options) ==
    [to      |-> options.email,
     subject |-> IF options.originalSubject # Null
                    /\ options.originalSubject # <<>>
                 THEN S_Re_ \o StripRePrefixes(options.originalSubject)
                 ELSE S_NewCommentOn \o options.title
                        \o S_ref \o options.ticketId,
     headers |-> sendCommentHeaders(options)]

\* Header names as mailparser keys them (lower case)
HeaderKey(name) ==
    CASE name = "X-Peppermint-AI" -> "x-peppermint-ai"
      [] name = "In-Reply-To"     -> "in-reply-to"
      [] name = "References"      -> "references"

\* A sent notification as the poller parses it when it lands in a polled
\* inbox: sender is the provider's reply address, Message-ID is the one the
\* transport assigned, header names are lower-cased, values are strings.
AsInbound(mail, messageId) ==
    [from      |-> "support@x",
     subject   |-> mail.subject,
     messageId |-> messageId,
     headers   |-> [h \in HeaderNames |->
                      IF \E p \in mail.headers : HeaderKey(p[1]) = h
                      THEN Str((CHOOSE p \in mail.headers :
                                   HeaderKey(p[1]) = h)[2])
                      ELSE Absent],
     origin    |-> "sendComment"]

CommentOptions ==
    {[email |-> "a@x", title |-> S_hi, ticketId |-> <<"1">>,
      originalSubject |-> os, inReplyTo |-> irt, references |-> refs] :
        os \in {Null, S_Re_hi}, irt \in {Null, Id_a},
        refs \in {<<>>, <<Id_c, Raw_a>>}}

OutboundMsgs == {AsInbound(sendComment(o), Raw_b) : o \in CommentOptions}

----------------------------------------------------------------------------
(* The store: Ticket, Comment, raw email, Webhooks *)

openStatuses   == {"needs_support", "in_progress", "hold", "in_review"}
closedStatuses == {"done"}

Tk(email, title, status, isComplete, locked, threadId, externalIds, linked) ==
    [email |-> email, title |-> title, status |-> status,
     isComplete |-> isComplete, locked |-> locked, threadId |-> threadId,
     externalIds |-> externalIds, linked |-> linked]

\* prisma.webhooks rows the dispatcher reads (type, active)
Webhooks ==
    <<[type |-> "customer_ticket_created",  active |-> TRUE],
      [type |-> "customer_reply_received",  active |-> TRUE],
      [type |-> "customer_ticket_created",  active |-> FALSE],
      [type |-> "ticket_created",           active |-> TRUE],
      [type |-> "customer_ticket_created",  active |-> TRUE]>>

----------------------------------------------------------------------------
(* processEmail: the values it derives from the parsed message *)

emailSubject(m) ==
    IF m.subject = Null \/ m.subject = <<>> THEN S_NoSubject ELSE m.subject

normalizedMessageId(m) == normalizeMessageId(m.messageId)

\* auth.service.ts:345-349
threadIdOf(m) ==
    IF IsString(m.headers["x-gm-thrid"])
    THEN m.headers["x-gm-thrid"].v ELSE normalizedMessageId(m)

\* auth.service.ts:352-355
normalizedInReplyTo(m) ==
    normalizeMessageId(IF IsString(m.headers["in-reply-to"])
                       THEN m.headers["in-reply-to"].v ELSE Null)

NotNull(id) == id # Null

\* the candidate list without the In-Reply-To of line 218
messageIdsOfReferencesOnly(headers) ==
    LET references == IF IsString(headers["references"])
                      THEN SplitWs(headers["references"].v, <<>>) ELSE <<>>
    IN  SelectSeq([i \in 1..Len(references) |->
                      normalizeMessageId(references[i])], NotNull)

\* matchByMessageIdChain, auth.service.ts:205-221: the candidate list
messageIdsOf(headers) ==
    LET references == IF IsString(headers["references"])
                      THEN SplitWs(headers["references"].v, <<>>) ELSE <<>>
        inReplyTo  == IF IsString(headers["in-reply-to"])
                      THEN headers["in-reply-to"].v ELSE Null
        all        == Append(references, inReplyTo)
    IN  SelectSeq([i \in 1..Len(all) |-> normalizeMessageId(all[i])], NotNull)

SubjectPrefixes ==
    {<<"r", "e", ":">>, <<"f", "w", "d", ":">>, <<"f", "w", ":">>,
     <<"r", "e", "f", ":">>}

\* matchByHeuristics, auth.service.ts:265-267:
\* subject.replace(/^(re:|fwd:|fw:|ref:)\s*/gi, "").trim()
\* (the pattern is anchored at the start, so it matches at most once)
normalizedSubjectOf(subject) ==
    IF \E p \in SubjectPrefixes : StartsWithI(subject, p)
    THEN LET p == CHOOSE q \in SubjectPrefixes : StartsWithI(subject, q)
         IN  Trim(TrimLeft(SubSeq(subject, Len(p) + 1, Len(subject))))
    ELSE Trim(subject)

\* [...new Set(xs)]
RECURSIVE Dedup(_)
Dedup(xs) ==
    IF xs = <<>> THEN <<>>
    ELSE LET init == Dedup(SubSeq(xs, 1, Len(xs) - 1))
             x    == xs[Len(xs)]
         IN  IF x \in Range(init) THEN init ELSE Append(init, x)

----------------------------------------------------------------------------
(* The store queries of the three layers *)

\* auth.service.ts:188: ticket.findFirst({ where: { threadId } })
ThreadCandidates(tks, gmailThreadId) ==
    {i \in DOMAIN tks : tks[i].threadId = gmailThreadId}

\* auth.service.ts:228: comment.findFirst({ where: { messageId: { in } } })
CommentCandidates(cms, messageIds) ==
    {j \in DOMAIN cms : cms[j].messageId \in Range(messageIds)}

\* auth.service.ts:242: ticket.findFirst({ externalIds: { hasSome } })
ExternalIdCandidates(tks, messageIds) ==
    {i \in DOMAIN tks :
        Range(tks[i].externalIds) \cap Range(messageIds) # {}}

\* the query without the status, isComplete and locked conditions
HeuristicCandidatesAnyStatus(tks, from, normalizedSubject) ==
    {i \in DOMAIN tks :
        /\ tks[i].email = from
        /\ ContainsI(tks[i].title, normalizedSubject)}

\* auth.service.ts:279-288
HeuristicCandidates(tks, from, normalizedSubject) ==
    {i \in DOMAIN tks :
        /\ tks[i].email = from
        /\ ContainsI(tks[i].title, normalizedSubject)
        /\ tks[i].status \in openStatuses
        /\ tks[i].isComplete = FALSE
        /\ tks[i].locked = FALSE}

\* the query ordered by createdAt ascending
LeastRecent(S) == CHOOSE i \in S : \A j \in S : i <= j

\* orderBy: { createdAt: "desc" }: rows are created in id order
MostRecent(S) == CHOOSE i \in S : \A j \in S : j <= i

\* what findFirst may return: a row of the candidates, or null (0)
FirstOf(S) == IF S = {} THEN {0} ELSE S

----------------------------------------------------------------------------
(* One invocation of the simpleParser callback (auth.service.ts:603-606)   *)
(* and of processEmail.  pc names the store operation the invocation is    *)
(* awaiting; the code between two awaits runs in one step.                 *)

NewTask(m, by) ==
    [msg |-> m, pc |-> "parsing", path |-> "none",
     layers |-> <<>>, hits |-> <<>>, matched |-> 0, snapExt |-> <<>>,
     link |-> 0, newTicket |-> 0, newComment |-> 0, hooks |-> {},
     pending |-> {}, failed |-> {}, by |-> by]

StoreOps == {"L1", "L2a", "L2b", "L3", "rawEmail", "ticket", "comment",
             "hooks", "update"}
Settled  == {"done", "rejected"}

\* the routing without the status check of lines 366-385
processEmailRouteAlwaysAppends(tk, hit, tks) ==
    IF hit = 0
    THEN [tk EXCEPT !.matched = 0, !.path = "create", !.link = 0,
                    !.pc = "rawEmail"]
    ELSE [tk EXCEPT !.matched = hit, !.path = "append",
                    !.snapExt = tks[hit].externalIds, !.pc = "comment"]

\* processEmail, auth.service.ts:364-428: routing on the matching result
processEmailRoute(tk, hit, tks) ==
    IF hit = 0
    THEN [tk EXCEPT !.matched = 0, !.path = "create", !.link = 0,
                    !.pc = "rawEmail"]
    ELSE IF tks[hit].status \in closedStatuses \/ tks[hit].locked
    THEN [tk EXCEPT !.matched = hit, !.path = "create", !.link = hit,
                    !.pc = "rawEmail"]
    ELSE [tk EXCEPT !.matched = hit, !.path = "append",
                    !.snapExt = tks[hit].externalIds, !.pc = "comment"]

RECURSIVE findMatchingTicket(_, _, _, _)

\* matchByHeuristics, auth.service.ts:260-269: up to the query
matchByHeuristics(tk, tks) ==
    LET tk3 == [tk EXCEPT !.layers = Append(@, 3)]
    IN  IF normalizedSubjectOf(emailSubject(tk.msg)) = <<>>
        THEN findMatchingTicket(tk3, 3, 0, tks)
        ELSE [tk3 EXCEPT !.pc = "L3"]

\* matchByMessageIdChain, auth.service.ts:202-223: up to the first query
matchByMessageIdChain(tk, tks) ==
    LET tk2 == [tk EXCEPT !.layers = Append(@, 2)]
    IN  IF Len(messageIdsOf(tk.msg.headers)) = 0
        THEN findMatchingTicket(tk2, 2, 0, tks)
        ELSE [tk2 EXCEPT !.pc = "L2a"]

\* matchByGmailThreadId, auth.service.ts:180-184: up to the query
matchByGmailThreadId(tk, tks) ==
    LET tk1 == [tk EXCEPT !.layers = Append(@, 1)]
        gmailThreadId == tk.msg.headers["x-gm-thrid"]
    IN  IF ~Truthy(gmailThreadId) \/ ~IsString(gmailThreadId)
        THEN findMatchingTicket(tk1, 1, 0, tks)
        ELSE [tk1 EXCEPT !.pc = "L1"]

\* findMatchingTicket without the returns of lines 310 and 314
findMatchingTicketTriesAll(tk, k, hit, tks) ==
    LET tkh == [tk EXCEPT !.hits = Append(@, hit)]
    IN  IF k = 1 THEN matchByMessageIdChain(tkh, tks)
        ELSE IF k = 2 THEN matchByHeuristics(tkh, tks)
        ELSE processEmailRoute(tkh, hit, tks)

\* findMatchingTicket, auth.service.ts:303-319: layer k has returned hit
\* (a ticket id, 0 for null)
findMatchingTicket(tk, k, hit, tks) ==
    LET tkh == [tk EXCEPT !.hits = Append(@, hit)]
    IN  IF k = 1
        THEN IF hit # 0 THEN processEmailRoute(tkh, hit, tks)
             ELSE matchByMessageIdChain(tkh, tks)
        ELSE IF k = 2
        THEN IF hit # 0 THEN processEmailRoute(tkh, hit, tks)
             ELSE matchByHeuristics(tkh, tks)
        ELSE processEmailRoute(tkh, hit, tks)

\* processEmail without the sender validation of lines 328-331
processEmailAnySender(tk, tks) ==
    IF isAutoReply(tk.msg.headers)
    THEN [tk EXCEPT !.pc = "done", !.path = "ignored"]
    ELSE matchByGmailThreadId(tk, tks)

\* processEmail without the auto-reply return of lines 339-342
processEmailAnswersAutoReplies(tk, tks) ==
    IF tk.msg.from = ""
    THEN [tk EXCEPT !.pc = "done", !.path = "skipped"]
    ELSE matchByGmailThreadId(tk, tks)

\* processEmail, auth.service.ts:324-362, entered by the parser callback
processEmail(tk, tks) ==
    IF tk.msg.from = ""
    THEN [tk EXCEPT !.pc = "done", !.path = "skipped"]
    ELSE IF isAutoReply(tk.msg.headers)
    THEN [tk EXCEPT !.pc = "done", !.path = "ignored"]
    ELSE matchByGmailThreadId(tk, tks)

\* the row created without the linked field of line 467
newTicketRowUnlinked(tk) ==
    Tk(tk.msg.from, emailSubject(tk.msg), "needs_support", FALSE, FALSE,
       threadIdOf(tk.msg),
       IF normalizedMessageId(tk.msg) # Null
          /\ normalizedMessageId(tk.msg) # <<>>
       THEN <<normalizedMessageId(tk.msg)>> ELSE <<>>,
       0)

\* createNewTicket, auth.service.ts:456-469: the row created
newTicketRow(tk) ==
    Tk(tk.msg.from, emailSubject(tk.msg), "needs_support", FALSE, FALSE,
       threadIdOf(tk.msg),
       IF normalizedMessageId(tk.msg) # Null
          /\ normalizedMessageId(tk.msg) # <<>>
       THEN <<normalizedMessageId(tk.msg)>> ELSE <<>>,
       tk.link)

\* the row created without the fields of lines 526-527
newCommentRowNoThreading(tk) ==
    [ticketId |-> tk.matched, reply |-> TRUE, replyEmail |-> tk.msg.from,
     messageId |-> Null, inReplyTo |-> Null]

\* appendCommentToTicket, auth.service.ts:518-529: the row created
newCommentRow(tk) ==
    [ticketId |-> tk.matched, reply |-> TRUE, replyEmail |-> tk.msg.from,
     messageId |-> normalizedMessageId(tk.msg),
     inReplyTo |-> normalizedInReplyTo(tk.msg)]

\* the write-back with an array push in place of the Set of line 405
updatedExternalIdsAppend(tk) ==
    Append(tk.snapExt, normalizedMessageId(tk.msg))

\* auth.service.ts:403-412: the externalIds written back
updatedExternalIds(tk) ==
    Dedup(Append(tk.snapExt, normalizedMessageId(tk.msg)))

\* both paths announcing the reply event
eventOfAlwaysReply(tk) == "customer_reply_received"

\* the event of lines 478 and 538
eventOf(tk) ==
    IF tk.path = "append" THEN "customer_reply_received"
    ELSE "customer_ticket_created"

\* after appendCommentToTicket returns: auth.service.ts:404
afterNotify(tk) ==
    IF tk.path = "append" /\ normalizedMessageId(tk.msg) # Null
                          /\ normalizedMessageId(tk.msg) # <<>>
    THEN "update" ELSE "done"

\* webhooks.findMany({ where: { type, active: true } }), lines 477-479 and
\* 537-539, without the active filter
webhooksForAnyState(type) ==
    {w \in DOMAIN Webhooks : Webhooks[w].type = type}

\* webhooks.findMany({ where: { type, active: true } })
webhooksFor(type) ==
    {w \in DOMAIN Webhooks : Webhooks[w].type = type /\ Webhooks[w].active}

----------------------------------------------------------------------------
(* Steps of a task *)

TaskAt(t, pc) == t \in DOMAIN tasks /\ tasks[t].pc = pc

\* auth.service.ts:603-605: the parser calls back with the parsed message;
\* processEmail runs up to its first store operation
ProcessEmail(t) ==
    /\ TaskAt(t, "parsing")
    /\ tasks' = [tasks EXCEPT ![t] = processEmail(@, tickets)]
    /\ UNCHANGED <<storeVars, unhandled, faults, schedVars>>

\* auth.service.ts:603-604: the parser calls back with an error, which the
\* async callback rethrows; nobody holds the callback's promise
ParseError(t) ==
    /\ Fault
    /\ TaskAt(t, "parsing")
    /\ tasks' = [tasks EXCEPT ![t].pc = "rejected"]
    /\ unhandled' = TRUE
    /\ UNCHANGED <<storeVars, schedVars>>

QueryThreadId(t) ==
    /\ TaskAt(t, "L1")
    /\ \E hit \in FirstOf(ThreadCandidates(tickets,
                             tasks[t].msg.headers["x-gm-thrid"].v)) :
          tasks' = [tasks EXCEPT ![t] = findMatchingTicket(@, 1, hit, tickets)]
    /\ UNCHANGED <<storeVars, unhandled, faults, schedVars>>

QueryCommentMessageId(t) ==
    /\ TaskAt(t, "L2a")
    /\ \E j \in FirstOf(CommentCandidates(comments,
                           messageIdsOf(tasks[t].msg.headers))) :
          tasks' = [tasks EXCEPT ![t] =
                      IF j # 0
                      THEN findMatchingTicket(@, 2, comments[j].ticketId,
                                              tickets)
                      ELSE [@ EXCEPT !.pc = "L2b"]]
    /\ UNCHANGED <<storeVars, unhandled, faults, schedVars>>

QueryExternalIds(t) ==
    /\ TaskAt(t, "L2b")
    /\ \E hit \in FirstOf(ExternalIdCandidates(tickets,
                             messageIdsOf(tasks[t].msg.headers))) :
          tasks' = [tasks EXCEPT ![t] = findMatchingTicket(@, 2, hit, tickets)]
    /\ UNCHANGED <<storeVars, unhandled, faults, schedVars>>

QueryHeuristics(t) ==
    /\ TaskAt(t, "L3")
    /\ LET c == HeuristicCandidates(tickets, tasks[t].msg.from,
                   normalizedSubjectOf(emailSubject(tasks[t].msg)))
           hit == IF c = {} THEN 0 ELSE MostRecent(c)
       IN  tasks' = [tasks EXCEPT ![t] = findMatchingTicket(@, 3, hit, tickets)]
    /\ UNCHANGED <<storeVars, unhandled, faults, schedVars>>

\* createNewTicket, auth.service.ts:445: imap_Email.create
CreateRawEmail(t) ==
    /\ TaskAt(t, "rawEmail")
    /\ imapEmails' = Append(imapEmails,
                        [from |-> tasks[t].msg.from,
                         subject |-> emailSubject(tasks[t].msg), task |-> t])
    /\ tasks' = [tasks EXCEPT ![t].pc = "ticket"]
    /\ UNCHANGED <<tickets, comments, deliveries, unhandled, faults, schedVars>>

\* createNewTicket, auth.service.ts:456: ticket.create
CreateTicket(t) ==
    /\ TaskAt(t, "ticket")
    /\ tickets' = Append(tickets, newTicketRow(tasks[t]))
    /\ tasks' = [tasks EXCEPT ![t].pc = "hooks",
                              ![t].newTicket = Len(tickets) + 1]
    /\ UNCHANGED <<comments, imapEmails, deliveries, unhandled, faults, schedVars>>

\* appendCommentToTicket, auth.service.ts:518: comment.create
CreateComment(t) ==
    /\ TaskAt(t, "comment")
    /\ comments' = Append(comments, newCommentRow(tasks[t]))
    /\ tasks' = [tasks EXCEPT ![t].pc = "hooks",
                              ![t].newComment = Len(comments) + 1]
    /\ UNCHANGED <<tickets, imapEmails, deliveries, unhandled, faults, schedVars>>

\* auth.service.ts:477 and 537: webhooks.findMany({ type, active: true })
FindWebhooks(t) ==
    /\ TaskAt(t, "hooks")
    /\ LET found == webhooksFor(eventOf(tasks[t]))
       IN  /\ tasks' = [tasks EXCEPT ![t].pc = "deliver",
                                     ![t].hooks = found,
                                     ![t].pending = found]
           /\ deliveries' = deliveries \cup
                 {[hook |-> w, event |-> eventOf(tasks[t]), task |-> t,
                   n |-> Cardinality({d \in deliveries :
                                         d.task = t /\ d.hook = w}) + 1] :
                     w \in found}
    /\ UNCHANGED <<tickets, comments, imapEmails, unhandled, faults, schedVars>>

\* the awaited call of line 500 / 558 for webhook w resolves
WebhookResponds(t, w) ==
    /\ TaskAt(t, "deliver")
    /\ w \in tasks[t].pending
    /\ tasks' = [tasks EXCEPT ![t].pending = @ \ {w}]
    /\ UNCHANGED <<storeVars, unhandled, faults, schedVars>>

\* the awaited call of line 500 / 558 for webhook w rejects: Promise.all
\* rejects, and with it createNewTicket / appendCommentToTicket and
\* processEmail, none of which catches it
WebhookFails(t, w) ==
    /\ Fault
    /\ TaskAt(t, "deliver")
    /\ w \in tasks[t].pending
    /\ tasks' = [tasks EXCEPT ![t].pc = "rejected",
                              ![t].failed = @ \cup {w}]
    /\ unhandled' = TRUE
    /\ UNCHANGED <<storeVars, schedVars>>

\* auth.service.ts:481-502 and 541-560: every call has resolved, so
\* Promise.all resolves and createNewTicket / appendCommentToTicket returns
Deliver(t) ==
    /\ TaskAt(t, "deliver")
    /\ tasks[t].pending = {}
    /\ tasks' = [tasks EXCEPT ![t].pc = afterNotify(tasks[t])]
    /\ UNCHANGED <<storeVars, unhandled, faults, schedVars>>

\* processEmail, auth.service.ts:408: ticket.update({ externalIds })
UpdateExternalIds(t) ==
    /\ TaskAt(t, "update")
    /\ tickets' = [tickets EXCEPT ![tasks[t].matched].externalIds =
                      updatedExternalIds(tasks[t])]
    /\ tasks' = [tasks EXCEPT ![t].pc = "done"]
    /\ UNCHANGED <<comments, imapEmails, deliveries, unhandled, faults, schedVars>>

\* a store operation rejects: nothing between it and the parser callback
\* catches, and the callback's promise is dropped (auth.service.ts:603-606)
StoreError(t) ==
    /\ Fault
    /\ t \in DOMAIN tasks
    /\ tasks[t].pc \in StoreOps
    /\ tasks' = [tasks EXCEPT ![t].pc = "rejected"]
    /\ unhandled' = TRUE
    /\ UNCHANGED <<storeVars, schedVars>>

TaskStep(t) ==
    \/ ProcessEmail(t)
    \/ ParseError(t)
    \/ QueryThreadId(t)
    \/ QueryCommentMessageId(t)
    \/ QueryExternalIds(t)
    \/ QueryHeuristics(t)
    \/ CreateRawEmail(t)
    \/ CreateTicket(t)
    \/ CreateComment(t)
    \/ FindWebhooks(t)
    \/ \E w \in tasks[t].pending : WebhookResponds(t, w)
    \/ \E w \in tasks[t].pending : WebhookFails(t, w)
    \/ Deliver(t)
    \/ UpdateExternalIds(t)
    \/ StoreError(t)

----------------------------------------------------------------------------
(* Mailboxes (prisma.emailQueue) and AuthService.getValidAccessToken *)

\* concurrent getEmails invocations the model follows
MaxCalls == 2
Slots == 1..MaxCalls

TokenMargin   == 300
TokenLifetime == 3600

\* auth.service.ts:24-27
tokenValid(queue, t) ==
    /\ queue.accessToken # 0
    /\ queue.expiresIn # 0
    /\ t < queue.expiresIn - TokenMargin

\* an emailQueue row as the store returns it; expiresIn is declared
\* bigint | number (types/email.ts:26): expiresInType is the one it comes as
Queue(serviceType, password, accessToken, expiresIn, refreshToken) ==
    [serviceType |-> serviceType, password |-> password,
     accessToken |-> accessToken, expiresIn |-> expiresIn,
     refreshToken |-> refreshToken, expiresInType |-> "number"]

\* auth.service.ts:25: expiresIn - 300 is evaluated once accessToken and
\* expiresIn are truthy; on a bigint it is a TypeError (a bigint and a
\* number do not mix in an arithmetic operation)
expiryThrows(queue) ==
    /\ queue.accessToken # 0
    /\ queue.expiresIn # 0
    /\ queue.expiresInType = "bigint"

\* the configured mailboxes the scheduler runs are drawn from
QueueLists ==
    {<<Queue("other", FALSE, 0, 0, 0), Queue("gmail", FALSE, 1, 0, 1),
       Queue("other", TRUE, 0, 0, 0)>>}

\* the provider's side of the mailboxes' grants: the refresh token it issued
\* last, whether its next answer carries a new one, and the access token it
\* issued last (access tokens are numbered in the order of their issue)
Grants(qs, rotates) ==
    [q \in DOMAIN qs |-> [issued    |-> qs[q].refreshToken,
                          rotates   |-> rotates /\ qs[q].refreshToken # 0,
                          access    |-> qs[q].accessToken]]

\* no rejection at hand
NoError == [name |-> "", message |-> <<>>]

IdleCall == [pc |-> "idle", qs |-> <<>>, qi |-> 0, log |-> <<>>,
             pendBody |-> {}, pendAttr |-> {}, token |-> 0, error |-> NoError]

\* throw new Error(message), or a rejection with such an error: the call
\* holds it until the catch of the loop body logs it
thrown(cl, name, message) ==
    [cl EXCEPT !.error = [name |-> name, message |-> message]]

\* auth.service.ts:70-74: what the catch around the exchange throws for a
\* failure whose message is errorMessage
refreshFailure(errorMessage) ==
    <<"Gmail token refresh failed: ", errorMessage, ". Please re-authenticate Gmail.">>

SessionPhases == {"connect", "openBox", "search", "fetch"}
InFetchEmails(c) == calls[c].pc # "idle"

\* fetchEmails, auth.service.ts:634-644: the catch of the loop body
logFailed(cl) ==
    [cl EXCEPT !.log = Append(@, [q |-> cl.qi, outcome |-> "failed",
                                  error |-> cl.error]),
               !.error = NoError]
logOk(cl) ==
    [cl EXCEPT !.log = Append(@, [q |-> cl.qi, outcome |-> "ok",
                                  error |-> NoError])]

\* a password check that never fires
missingPasswordNever(queue) == FALSE

\* fetchEmails, auth.service.ts:574: !imapConfig.password
missingPassword(queue) == ~queue.password

\* fetchEmails, auth.service.ts:571-581 with getImapConfig (121-152) and
\* getValidAccessToken (19-33): the loop from mailbox qi on, up to the first
\* operation it has to wait for; pc "return" when the list is exhausted
RECURSIVE fetchEmailsFrom(_, _, _)
fetchEmailsFrom(cl, qi, t) ==
    IF qi > Len(cl.qs) THEN [cl EXCEPT !.pc = "return", !.qi = qi]
    ELSE LET queue == cl.qs[qi]
             at    == [cl EXCEPT !.qi = qi, !.pendBody = {}, !.pendAttr = {},
                                 !.token = 0]
         IN  IF queue.serviceType = "gmail"
             THEN IF expiryThrows(queue)
                  THEN fetchEmailsFrom(
                           logFailed(thrown(at, "TypeError",
                               <<"Cannot mix BigInt and other types">>)),
                           qi + 1, t)
                  ELSE IF tokenValid(queue, t)
                  THEN [at EXCEPT !.pc = "connect",
                                  !.token = queue.accessToken]
                  ELSE IF queue.refreshToken = 0
                  THEN fetchEmailsFrom(
                           logFailed(thrown(at, "Error",
                               <<"No refresh token available. Please re-authenticate Gmail.">>)),
                           qi + 1, t)
                  ELSE [at EXCEPT !.pc = "refresh"]
             ELSE IF queue.serviceType = "other"
             THEN IF missingPassword(queue)
                  THEN fetchEmailsFrom(
                           logFailed(thrown(at, "Error",
                               <<"IMAP configuration is missing a password">>)),
                           qi + 1, t)
                  ELSE [at EXCEPT !.pc = "connect"]
             ELSE fetchEmailsFrom(
                      logFailed(thrown(at, "Error", <<"Unsupported service type">>)),
                      qi + 1, t)

\* the loop without the catch of lines 634-644: the rejection ends it
mailboxFailedEndsLoop(cl, t) == [logFailed(cl) EXCEPT !.pc = "return"]

\* the awaited promise of mailbox qi was rejected: caught, next mailbox
mailboxFailed(cl, t) == fetchEmailsFrom(logFailed(cl), cl.qi + 1, t)
\* the awaited promise of mailbox qi was resolved: next mailbox
mailboxDone(cl, t) == fetchEmailsFrom(logOk(cl), cl.qi + 1, t)

----------------------------------------------------------------------------
(* getEmails -- lib/imap.ts:6-22 *)

\* getEmails without the check of imap.ts:8-11
getEmailsNeverSkips == FALSE

\* imap.ts:8: the call is skipped
getEmailsSkips == isFetching

\* getEmails clearing the flag after the await instead of in a finally
getEmailsReleaseAfterAwait(outcome) == outcome = "failed"

\* imap.ts:14-21: fetchEmails has returned or thrown; what the finally
\* block leaves in isFetching
getEmailsRelease(outcome) == FALSE

\* the line getEmails logs when it ends (imap.ts:9, 16, 18), with what the
\* cycle's own log lines said: mailboxes attempted, and whether one failed
RECURSIVE loggedErrors(_)
loggedErrors(log) ==
    IF log = <<>> THEN <<>>
    ELSE IF Head(log).outcome = "failed"
         THEN <<[q |-> Head(log).q, error |-> Head(log).error]>>
              \o loggedErrors(Tail(log))
         ELSE loggedErrors(Tail(log))

Logged(what, log) ==
    [what |-> what, attempted |-> Len(log),
     failed |-> \E i \in DOMAIN log : log[i].outcome = "failed",
     errors |-> loggedErrors(log)]

\* slot c's call goes on as cl; fetchEmails returns when cl.pc = "return"
Continue(c, cl) ==
    IF cl.pc = "return"
    THEN /\ calls' = [calls EXCEPT ![c] = IdleCall]
         /\ lastCall' = Logged("completed", cl.log)
         /\ isFetching' = getEmailsRelease("completed")
    ELSE /\ calls' = [calls EXCEPT ![c] = cl]
         /\ UNCHANGED <<lastCall, isFetching>>

\* a new invocation takes the first free slot (slots are interchangeable)
FreeSlot(c) ==
    /\ calls[c].pc = "idle"
    /\ \A d \in Slots : d < c => calls[d].pc # "idle"

getEmails(c) ==
    /\ FreeSlot(c)
    /\ IF getEmailsSkips
       THEN /\ lastCall' = Logged("skipped", <<>>)
            /\ UNCHANGED <<isFetching, calls>>
       ELSE /\ isFetching' = TRUE
            /\ calls' = [calls EXCEPT ![c] = [IdleCall EXCEPT !.pc = "findMany"]]
            /\ UNCHANGED lastCall
    /\ UNCHANGED <<storeVars, tasks, unhandled, faults, unseen, queues, provider, now>>

\* setInterval(() => getEmails(), 30000)
TimerFire(c) == getEmails(c) /\ UNCHANGED http

\* POST /api/v1/email-queue/fetch -- controllers/queue.ts:248
ManualFetch(c) == getEmails(c) /\ UNCHANGED http

----------------------------------------------------------------------------
(* fetchEmails -- auth.service.ts:566-646 *)

CallAt(c, pc) == calls[c].pc = pc

\* auth.service.ts:567: emailQueue.findMany resolves
FindMany(c) ==
    /\ CallAt(c, "findMany")
    /\ Continue(c, fetchEmailsFrom([calls[c] EXCEPT !.qs = queues], 1, now))
    /\ UNCHANGED <<storeVars, tasks, unhandled, faults, unseen, queues, provider, http, now>>

\* emailQueue.findMany rejects: fetchEmails throws, getEmails catches
FindManyError(c) ==
    /\ Fault
    /\ CallAt(c, "findMany")
    /\ calls' = [calls EXCEPT ![c] = IdleCall]
    /\ lastCall' = Logged("failed", <<>>)
    /\ isFetching' = getEmailsRelease("failed")
    /\ UNCHANGED <<storeVars, tasks, unhandled, unseen, queues, provider, http, now>>

\* the provider's answer to the exchange of line 51 for mailbox q: a fresh
\* access token, and a new refresh token when the provider rotates it
\* (0: the answer carries none)
tokenResponse(q) ==
    [token        |-> provider[q].access + 1,
     refreshToken |-> IF provider[q].rotates
                      THEN provider[q].issued + 1 ELSE 0]

\* auth.service.ts:54-63: the row emailQueue.update leaves
refreshedQueue(queue, tokenInfo, t) ==
    [queue EXCEPT !.accessToken = tokenInfo.token,
                  !.expiresIn   = t + TokenLifetime]

\* getValidAccessToken, auth.service.ts:51-56: the exchange returns a
\* token; emailQueue.update is called with it
RefreshOk(c) ==
    /\ CallAt(c, "refresh")
    /\ LET q == calls[c].qi
           tokenInfo == tokenResponse(q)
       IN  /\ provider' = [provider EXCEPT
                             ![q].issued = IF tokenInfo.refreshToken # 0
                                           THEN tokenInfo.refreshToken ELSE @,
                             ![q].rotates = FALSE,
                             ![q].access = tokenInfo.token]
           /\ calls' = [calls EXCEPT ![c].pc = "persist",
                                     ![c].token = tokenInfo.token]
    /\ UNCHANGED <<storeVars, tasks, unhandled, faults, isFetching, lastCall, unseen,
                   queues, http, now>>

\* getValidAccessToken, auth.service.ts:57-66: emailQueue.update resolves,
\* the new token is returned
UpdateTokenOk(c) ==
    /\ CallAt(c, "persist")
    /\ queues' = [queues EXCEPT ![calls[c].qi] =
                     refreshedQueue(@, [token |-> calls[c].token], now)]
    /\ calls' = [calls EXCEPT ![c].pc = "connect"]
    /\ UNCHANGED <<storeVars, tasks, unhandled, faults, isFetching, lastCall, unseen,
                   provider, http, now>>

\* emailQueue.update rejects: caught at line 70 and thrown on as a failed
\* refresh
UpdateTokenError(c) ==
    /\ Fault
    /\ CallAt(c, "persist")
    /\ Continue(c, mailboxFailed(
          thrown(calls[c], "Error", refreshFailure("update failed")), now))
    /\ UNCHANGED <<storeVars, tasks, unhandled, unseen, queues, provider, http, now>>

\* a failed exchange that also clears the stored access token
RefreshErrorClearsToken(c) ==
    /\ Fault
    /\ CallAt(c, "refresh")
    /\ \E errorMessage \in {"invalid_grant", "ETIMEDOUT",
                           "Unable to refresh access token - no token returned."} :
          Continue(c, mailboxFailed(
              thrown(calls[c], "Error", refreshFailure(errorMessage)), now))
    /\ queues' = [queues EXCEPT ![calls[c].qi].accessToken = 0,
                                ![calls[c].qi].expiresIn = 0]
    /\ UNCHANGED <<storeVars, tasks, unhandled, unseen, provider, http, now>>

\* getValidAccessToken, auth.service.ts:67-74: the provider revoked the
\* grant, the network or the API failed, or the answer holds no token
\* (line 67); the error is caught by the loop body's catch
RefreshError(c) ==
    /\ Fault
    /\ CallAt(c, "refresh")
    /\ \E errorMessage \in {"invalid_grant", "ETIMEDOUT",
                           "Unable to refresh access token - no token returned."} :
          Continue(c, mailboxFailed(
              thrown(calls[c], "Error", refreshFailure(errorMessage)), now))
    /\ UNCHANGED <<storeVars, tasks, unhandled, unseen, queues, provider, http, now>>

\* imap.once("ready"): openBox is called
Ready(c) ==
    /\ CallAt(c, "connect")
    /\ calls' = [calls EXCEPT ![c].pc = "openBox"]
    /\ UNCHANGED <<storeVars, tasks, unhandled, faults, isFetching, lastCall, unseen,
                   queues, provider, http, now>>

\* openBox callback without error: search is called
OpenBoxOk(c) ==
    /\ CallAt(c, "openBox")
    /\ calls' = [calls EXCEPT ![c].pc = "search"]
    /\ UNCHANGED <<storeVars, tasks, unhandled, faults, isFetching, lastCall, unseen,
                   queues, provider, http, now>>

\* auth.service.ts:586-589, 591 and 616: openBox, search or fetch error
ProtocolError(c) ==
    /\ Fault
    /\ calls[c].pc \in {"openBox", "search", "fetch"}
    /\ Continue(c, mailboxFailed(thrown(calls[c], "Error", <<"imap">>), now))
    /\ UNCHANGED <<storeVars, tasks, unhandled, unseen, queues, provider, http, now>>

\* auth.service.ts:590-599: search callback with the unseen messages
SearchOk(c) ==
    /\ CallAt(c, "search")
    /\ LET results == unseen[calls[c].qi]
       IN  IF results = {}
           THEN Continue(c, mailboxDone(calls[c], now))
           ELSE /\ calls' = [calls EXCEPT ![c].pc = "fetch",
                                          ![c].pendBody = results,
                                          ![c].pendAttr = results]
                /\ UNCHANGED <<lastCall, isFetching>>
    /\ UNCHANGED <<storeVars, tasks, unhandled, faults, unseen, queues, provider, http, now>>

\* auth.service.ts:602-607: a message's body is handed to simpleParser;
\* the parser will call back with an error or with the parsed message
MsgBody(c, m) ==
    /\ CallAt(c, "fetch")
    /\ m \in calls[c].pendBody
    /\ calls' = [calls EXCEPT ![c].pendBody = @ \ {m}]
    /\ tasks' = Append(tasks, NewTask(m, c))
    /\ UNCHANGED <<storeVars, unhandled, faults, isFetching, lastCall, unseen,
                   queues, provider, http, now>>

\* auth.service.ts:609-613: the message's attributes arrive; \Seen is added
MsgAttributes(c, m) ==
    /\ CallAt(c, "fetch")
    /\ m \in calls[c].pendAttr
    /\ calls' = [calls EXCEPT ![c].pendAttr = @ \ {m}]
    /\ unseen' = [unseen EXCEPT ![calls[c].qi] = @ \ {m}]
    /\ UNCHANGED <<storeVars, tasks, unhandled, faults, isFetching, lastCall,
                   queues, provider, http, now>>

\* auth.service.ts:617-621: fetch "end"
FetchEnd(c) ==
    /\ CallAt(c, "fetch")
    /\ calls[c].pendBody = {} /\ calls[c].pendAttr = {}
    /\ Continue(c, mailboxDone(calls[c], now))
    /\ UNCHANGED <<storeVars, tasks, unhandled, faults, unseen, queues, provider, http, now>>

\* auth.service.ts:626: imap "error"
ImapError(c) ==
    /\ Fault
    /\ calls[c].pc \in SessionPhases
    /\ Continue(c, mailboxFailed(thrown(calls[c], "Error", <<"imap">>), now))
    /\ UNCHANGED <<storeVars, tasks, unhandled, unseen, queues, provider, http, now>>

\* auth.service.ts:627-630: imap "end" (the server closed the connection)
ImapEnd(c) ==
    /\ Fault
    /\ calls[c].pc \in SessionPhases
    /\ Continue(c, mailboxDone(calls[c], now))
    /\ UNCHANGED <<storeVars, tasks, unhandled, unseen, queues, provider, http, now>>

\* the session stops emitting events: no ready, error or end will come.
\* fetchEmails arms no timer of its own around the awaited promise
\* (auth.service.ts:583-633), so nothing continues this call
SessionHangs(c) ==
    /\ Fault
    /\ calls[c].pc \in SessionPhases
    /\ calls' = [calls EXCEPT ![c].pc = "hung"]
    /\ UNCHANGED <<storeVars, tasks, unhandled, isFetching, lastCall, unseen,
                   queues, provider, http, now>>

----------------------------------------------------------------------------
(* The scheduler with its mailboxes: timer, manual fetches, sessions, tasks *)

\* the unseen message waiting in the second-to-last mailbox: a reply in a
\* known thread, a reply to a known message id, or a first message
SchedMsgs ==
    {Msg("a@x", S_Re_hi, Raw_b, Str(Thr_t), Absent, Absent),
     Msg("a@x", S_Re_hi, Raw_b, Absent, Str(Raw_a), Absent),
     Msg("b@x", S_yo, Raw_b, Absent, Absent, Absent)}

MailboxContents(qs, m) ==
    [i \in 1..Len(qs) |-> IF i = Len(qs) - 1 THEN {m} ELSE {}]

Init ==
    /\ tickets = <<Tk("a@x", S_hi, "needs_support", FALSE, FALSE, Thr_t,
                      <<Id_a>>, 0)>>
    /\ comments = <<>>
    /\ imapEmails = <<>>
    /\ deliveries = {}
    /\ tasks = <<>>
    /\ unhandled = FALSE
    /\ faults = 0
    /\ isFetching = FALSE
    /\ calls = [c \in Slots |-> IdleCall]
    /\ lastCall = Logged("none", <<>>)
    /\ queues \in QueueLists
    /\ provider = Grants(queues, FALSE)
    /\ \E m \in SchedMsgs : unseen = MailboxContents(queues, m)
    /\ now = 0
    /\ http = NoRequest

Next ==
    \/ \E c \in Slots :
          \/ TimerFire(c)
          \/ ManualFetch(c)
          \/ FindMany(c)
          \/ FindManyError(c)
          \/ RefreshOk(c)
          \/ UpdateTokenOk(c)
          \/ UpdateTokenError(c)
          \/ RefreshError(c)
          \/ Ready(c)
          \/ OpenBoxOk(c)
          \/ ProtocolError(c)
          \/ SearchOk(c)
          \/ \E m \in calls[c].pendBody : MsgBody(c, m)
          \/ \E m \in calls[c].pendAttr : MsgAttributes(c, m)
          \/ FetchEnd(c)
          \/ ImapError(c)
          \/ ImapEnd(c)
          \/ SessionHangs(c)
    \/ \E t \in DOMAIN tasks :
          \/ ProcessEmail(t)
          \/ ParseError(t)
          \/ QueryThreadId(t)
          \/ QueryCommentMessageId(t)
          \/ QueryExternalIds(t)
          \/ QueryHeuristics(t)
          \/ CreateRawEmail(t)
          \/ CreateTicket(t)
          \/ CreateComment(t)
          \/ FindWebhooks(t)
          \/ \E w \in tasks[t].pending : WebhookResponds(t, w)
          \/ \E w \in tasks[t].pending : WebhookFails(t, w)
          \/ Deliver(t)
          \/ UpdateExternalIds(t)
          \/ StoreError(t)

Spec == Init /\ [][Next]_vars

----------------------------------------------------------------------------
(* processEmail applied to one parsed message against a store *)

StatusPool ==
    {<<"needs_support", FALSE, FALSE>>, <<"done", TRUE, FALSE>>,
     <<"done", FALSE, FALSE>>, <<"hold", FALSE, TRUE>>,
     <<"in_progress", TRUE, FALSE>>}

ProcTickets1 ==
    {Tk("a@x", S_hi, st[1], st[2], st[3], th, ext, 0) :
        st \in StatusPool, th \in {Null, Thr_t}, ext \in {<<>>, <<Id_a>>}}

ProcTickets2 ==
    {Tk("a@x", S_hi, "needs_support", FALSE, FALSE, Thr_t, <<>>, 0),
     Tk("b@x", S_yo, "done", TRUE, FALSE, Null, <<Id_a>>, 0),
     Tk("a@x", <<"S", "a", "y", " ", "H", "I">>, "in_review", FALSE, FALSE,
        Thr_u, <<Id_c>>, 0),
     Tk("a@x", S_NoSubject, "needs_support", FALSE, FALSE, Null, <<>>, 0),
     Tk("a@x", S_Re_hi, "needs_support", FALSE, FALSE, Thr_t, <<Id_b>>, 1)}

ProcTicketLists ==
    {<<>>} \cup {<<t1>> : t1 \in ProcTickets1}
           \cup {<<t1, t2>> : t1 \in ProcTickets1, t2 \in ProcTickets2}

ProcCommentLists(tks) ==
    {<<>>} \cup
    {<<[ticketId |-> i, reply |-> TRUE, replyEmail |-> tks[i].email,
        messageId |-> Id_a, inReplyTo |-> Null]>> : i \in DOMAIN tks}

CorrelationMsgs ==
    {Msg("a@x", s, mid, gm, irt, refs) :
        s \in {Null, S_hi, S_Re_hi}, mid \in {Null, Raw_b},
        gm \in {Absent, Str(Thr_t), Obj},
        irt \in {Absent, Str(Raw_a)}, refs \in {Absent, Str(Raw_ca)}}

AutoHeaders ==
    {<<"auto-submitted", Str(S_yes)>>, <<"auto-submitted", Str(S_no)>>,
     <<"auto-submitted", Obj>>,
     <<"x-auto-response-suppress", Str(S_All)>>,
     <<"x-auto-response-suppress", Str(<<>>)>>,
     <<"x-peppermint-ai", Str(S_true)>>, <<"x-peppermint-ai", Str(S_yes)>>,
     <<"precedence", Str(S_bulk)>>, <<"precedence", Str(S_list)>>,
     <<"precedence", Str(S_autoreply)>>, <<"precedence", Str(S_no)>>,
     <<"x-autoreply", Str(S_yes)>>, <<"x-autoreply", Str(S_no)>>,
     <<"x-ms-exchange-auto-submissions", Str(S_All)>>}

AutoMsgs ==
    {WithHeader(Msg("a@x", S_Re_hi, Raw_b, gm, Str(Raw_a), Absent), h[1], h[2]) :
        h \in AutoHeaders, gm \in {Absent, Str(Thr_t)}}

NoSenderMsgs ==
    {Msg("", S_Re_hi, Raw_b, Str(Thr_t), Str(Raw_a), Absent),
     WithHeader(Msg("", S_hi, Raw_b, Absent, Absent, Absent),
                "precedence", Str(S_bulk))}

\* with them, a message whose Message-ID and In-Reply-To are "<>", and a
\* forwarded reply ("Re: Fw: hi")
ProcMsgs ==
    CorrelationMsgs \cup AutoMsgs \cup NoSenderMsgs \cup OutboundMsgs
       \cup {Msg("a@x", S_hi, <<"<", ">">>, Absent, Str(<<"<", ">">>), Absent),
             Msg("a@x", S_Re_ \o <<"F", "w", ":", " ">> \o S_hi, Raw_b,
                 Absent, Absent, Absent)}

ProcInit ==
    /\ tickets \in ProcTicketLists
    /\ comments \in ProcCommentLists(tickets)
    /\ imapEmails = <<>>
    /\ deliveries = {}
    /\ \E m \in ProcMsgs : tasks = <<NewTask(m, 0)>>
    /\ unhandled = FALSE
    /\ faults = 0
    /\ isFetching = FALSE
    /\ calls = [c \in Slots |-> IdleCall]
    /\ lastCall = Logged("none", <<>>)
    /\ queues = <<>>
    /\ provider = <<>>
    /\ unseen = <<>>
    /\ now = 0
    /\ http = NoRequest

ProcNext ==
    \E t \in DOMAIN tasks :
          \/ ProcessEmail(t)
          \/ ParseError(t)
          \/ QueryThreadId(t)
          \/ QueryCommentMessageId(t)
          \/ QueryExternalIds(t)
          \/ QueryHeuristics(t)
          \/ CreateRawEmail(t)
          \/ CreateTicket(t)
          \/ CreateComment(t)
          \/ FindWebhooks(t)
          \/ \E w \in tasks[t].pending : WebhookResponds(t, w)
          \/ \E w \in tasks[t].pending : WebhookFails(t, w)
          \/ Deliver(t)
          \/ UpdateExternalIds(t)
          \/ StoreError(t)

ProcSpec == ProcInit /\ [][ProcNext]_vars

----------------------------------------------------------------------------
(* One mailbox holding two unseen messages of one conversation *)

Id_c_raw == <<"<", "c", ">">>

\* the two messages: in one provider thread; the second answering the
\* first's Message-ID; one message delivered twice
MsgPairs ==
    {{Msg("a@x", S_hi, Raw_b, Str(Thr_t), Absent, Absent),
      Msg("a@x", S_Re_hi, Id_c_raw, Str(Thr_t), Str(Raw_b), Absent)},
     {Msg("a@x", S_hi, Raw_b, Absent, Absent, Absent),
      Msg("a@x", S_Re_hi, Id_c_raw, Absent, Str(Raw_b), Absent)},
     {Msg("a@x", S_hi, Raw_b, Str(Thr_t), Absent, Absent),
      Msg("a@x", S_Re_hi, Raw_b, Str(Thr_t), Absent, Absent)}}

PairTicketLists ==
    {<<>>,
     <<Tk("a@x", S_yo, "needs_support", FALSE, FALSE, Thr_t, <<Id_a>>, 0)>>}

PairInit ==
    /\ tickets \in PairTicketLists
    /\ comments = <<>>
    /\ imapEmails = <<>>
    /\ deliveries = {}
    /\ tasks = <<>>
    /\ unhandled = FALSE
    /\ faults = 0
    /\ isFetching = FALSE
    /\ calls = [c \in Slots |-> IdleCall]
    /\ lastCall = Logged("none", <<>>)
    /\ queues = <<Queue("other", TRUE, 0, 0, 0)>>
    /\ provider = Grants(queues, FALSE)
    /\ unseen \in {<<pair>> : pair \in MsgPairs}
    /\ now = 0
    /\ http = NoRequest

PairNext ==
    \/ \E c \in Slots :
          \/ TimerFire(c)
          \/ FindMany(c)
          \/ Ready(c)
          \/ OpenBoxOk(c)
          \/ SearchOk(c)
          \/ \E m \in calls[c].pendBody : MsgBody(c, m)
          \/ \E m \in calls[c].pendAttr : MsgAttributes(c, m)
          \/ FetchEnd(c)
    \/ \E t \in DOMAIN tasks :
          \/ ProcessEmail(t)
          \/ QueryThreadId(t)
          \/ QueryCommentMessageId(t)
          \/ QueryExternalIds(t)
          \/ QueryHeuristics(t)
          \/ CreateRawEmail(t)
          \/ CreateTicket(t)
          \/ CreateComment(t)
          \/ FindWebhooks(t)
          \/ \E w \in tasks[t].pending : WebhookResponds(t, w)
          \/ Deliver(t)
          \/ UpdateExternalIds(t)

PairSpec == PairInit /\ [][PairNext]_vars

----------------------------------------------------------------------------
(* Token handling of one Gmail mailbox: the stored access token, its expiry
   on both sides of the margin, a refresh grant that may be missing, and a
   provider that may answer the exchange with a new refresh token *)

AuthQueues ==
    {<<[Queue("gmail", FALSE, accessToken, expiresIn, refreshToken)
          EXCEPT !.expiresInType = type]>> :
        accessToken \in {0, 1},
        expiresIn \in {0, 1000, 1299, 1300, 1301, 5000},
        refreshToken \in {0, 1},
        type \in {"number", "bigint"}}

AuthInit ==
    /\ tickets = <<>>
    /\ comments = <<>>
    /\ imapEmails = <<>>
    /\ deliveries = {}
    /\ tasks = <<>>
    /\ unhandled = FALSE
    /\ faults = 0
    /\ isFetching = FALSE
    /\ calls = [c \in Slots |-> IdleCall]
    /\ lastCall = Logged("none", <<>>)
    /\ queues \in AuthQueues
    /\ \E rotates \in BOOLEAN : provider = Grants(queues, rotates)
    /\ unseen = [q \in DOMAIN queues |-> {}]
    /\ now = 1000
    /\ http = NoRequest

AuthNext ==
    \E c \in Slots :
        \/ TimerFire(c)
        \/ ManualFetch(c)
        \/ FindMany(c)
        \/ FindManyError(c)
        \/ RefreshOk(c)
        \/ UpdateTokenOk(c)
        \/ UpdateTokenError(c)
        \/ RefreshError(c)
        \/ Ready(c)
        \/ OpenBoxOk(c)
        \/ ProtocolError(c)
        \/ SearchOk(c)
        \/ ImapError(c)
        \/ ImapEnd(c)
        \/ SessionHangs(c)

AuthSpec == AuthInit /\ [][AuthNext]_vars

----------------------------------------------------------------------------
(* A cycle over two mailboxes, one of them misconfigured: a Gmail mailbox
   with no refresh token and no usable access token, a password mailbox
   without a password, a mailbox of an unknown kind *)

ConfigInit ==
    /\ tickets = <<>>
    /\ comments = <<>>
    /\ imapEmails = <<>>
    /\ deliveries = {}
    /\ tasks = <<>>
    /\ unhandled = FALSE
    /\ faults = 0
    /\ isFetching = FALSE
    /\ calls = [c \in Slots |-> IdleCall]
    /\ lastCall = Logged("none", <<>>)
    /\ \E bad \in {Queue("gmail", FALSE, 0, 0, 0),
                    Queue("gmail", FALSE, 1, 1300, 0),
                    Queue("other", FALSE, 0, 0, 0),
                    Queue("outlook", TRUE, 1, 5000, 1)},
          good \in {Queue("other", TRUE, 0, 0, 0),
                     Queue("gmail", FALSE, 1, 5000, 1),
                     Queue("gmail", FALSE, 1, 1000, 1)} :
          queues \in {<<bad, good>>, <<good, bad>>}
    /\ provider = Grants(queues, FALSE)
    /\ unseen = [q \in DOMAIN queues |-> {}]
    /\ now = 1000
    /\ http = NoRequest

ConfigSpec == ConfigInit /\ [][AuthNext]_vars

----------------------------------------------------------------------------
(* HTTP API: the server's preHandler hook and the email-queue routes *)

\* lib/api-key.ts:20-22: SHA-256 of the key, as stored
hashApiKey(key) == <<"sha256", key>>

\* prisma.apiKey rows by stored hash; expiresAt 0: no expiry
ApiKeys ==
    (hashApiKey("pk_good")     :> [active |-> TRUE,  expiresAt |-> 0]) @@
    (hashApiKey("pk_lasting")  :> [active |-> TRUE,  expiresAt |-> 5000]) @@
    (hashApiKey("pk_revoked")  :> [active |-> FALSE, expiresAt |-> 0]) @@
    (hashApiKey("pk_expired")  :> [active |-> TRUE,  expiresAt |-> 500])

\* lib/api-key.ts:27-75: TRUE when a user is returned, FALSE for null
validateApiKey(request, t) ==
    LET apiKey == request.apiKey
        hashedKey == hashApiKey(apiKey)
    IN  /\ apiKey # ""
        /\ hashedKey \in DOMAIN ApiKeys
        /\ ApiKeys[hashedKey].active
        /\ ~(ApiKeys[hashedKey].expiresAt # 0 /\ ApiKeys[hashedKey].expiresAt < t)

\* requests: a route, the X-API-Key header ("": none) and the bearer token
\* of the Authorization header ("": no header; checkToken throws on "bad")
Requests ==
    [route  : {[method |-> "GET",    url |-> "/"],
               [method |-> "DELETE", url |-> "/api/v1/email-queue/delete"],
               [method |-> "POST",   url |-> "/api/v1/email-queue/fetch"]},
     apiKey : {"", "pk_good", "pk_lasting", "pk_revoked", "pk_expired", "pk_unknown"},
     bearer : {"", "valid", "bad"}]

\* the preHandler hook of the server (part_005:68-114): TRUE when the
\* request goes on to its route, FALSE when the hook replies 401
preHandler(request) ==
    IF request.route.url = "/" /\ request.route.method = "GET" THEN TRUE
    ELSE IF request.apiKey # "" THEN TRUE
    ELSE IF request.bearer = "" THEN FALSE
    ELSE request.bearer = "valid"

\* a request arrives and the hook runs
PreHandler ==
    /\ http.stage = "received"
    /\ http' = IF preHandler(http.request)
               THEN [http EXCEPT !.stage = "route"]
               ELSE [http EXCEPT !.stage = "replied", !.status = 401]
    /\ UNCHANGED <<storeVars, tasks, unhandled, faults, isFetching, calls,
                   lastCall, unseen, queues, provider, now>>

\* GET /: the health check
HealthRoute ==
    /\ http.stage = "route"
    /\ http.request.route.url = "/"
    /\ http' = [http EXCEPT !.stage = "replied", !.status = 200]
    /\ UNCHANGED <<storeVars, tasks, unhandled, faults, isFetching, calls,
                   lastCall, unseen, queues, provider, now>>

\* DELETE /api/v1/email-queue/delete (queue.ts:229-245): the row is deleted
DeleteRoute ==
    /\ http.stage = "route"
    /\ http.request.route.url = "/api/v1/email-queue/delete"
    /\ queues # <<>>
    /\ queues' = SubSeq(queues, 1, Len(queues) - 1)
    /\ provider' = SubSeq(provider, 1, Len(queues) - 1)
    /\ unseen' = SubSeq(unseen, 1, Len(queues) - 1)
    /\ http' = [http EXCEPT !.stage = "replied", !.status = 200]
    /\ UNCHANGED <<storeVars, tasks, unhandled, faults, isFetching, calls,
                   lastCall, now>>

\* POST /api/v1/email-queue/fetch (queue.ts:248-267): the handler calls
\* getEmails and awaits it; a skipped call returns at once and 200 is sent,
\* otherwise the handler waits for the fetch it started
FetchRoute(c) ==
    /\ http.stage = "route"
    /\ http.request.route.url = "/api/v1/email-queue/fetch"
    /\ getEmails(c)
    /\ http' = IF getEmailsSkips
               THEN [http EXCEPT !.stage = "replied", !.status = 200]
               ELSE [http EXCEPT !.stage = "handling"]

ApiInit ==
    /\ tickets = <<>>
    /\ comments = <<>>
    /\ imapEmails = <<>>
    /\ deliveries = {}
    /\ tasks = <<>>
    /\ unhandled = FALSE
    /\ faults = 0
    /\ isFetching \in BOOLEAN
    /\ calls = [c \in Slots |-> IF isFetching /\ c = 1
                                THEN [IdleCall EXCEPT !.pc = "findMany"]
                                ELSE IdleCall]
    /\ lastCall = Logged("none", <<>>)
    /\ queues = <<Queue("other", TRUE, 0, 0, 0)>>
    /\ provider = Grants(queues, FALSE)
    /\ unseen = [q \in DOMAIN queues |-> {}]
    /\ now = 1000
    /\ \E request \in Requests :
          http = [stage |-> "received", request |-> request, status |-> 0]

ApiNext ==
    \/ PreHandler
    \/ HealthRoute
    \/ DeleteRoute
    \/ \E c \in Slots : FetchRoute(c)

ApiSpec == ApiInit /\ [][ApiNext]_vars

----------------------------------------------------------------------------
(* Properties *)

\* C1: a message isAutoReply classifies as an auto-reply makes processEmail
\* create no Ticket, no Comment and no raw-email record, update no ticket and
\* deliver no webhook, whatever tickets exist: every step of its task leaves
\* the store as it was and ends the task.
C1_AutoReplyTouchesNothing ==
    [][\A t \in DOMAIN tasks :
          (isAutoReply(tasks[t].msg.headers) /\ tasks'[t] # tasks[t])
             => /\ UNCHANGED storeVars
                /\ tasks'[t].pc \in Settled
                /\ tasks'[t].hooks = {}]_vars

C1_Witness ==
    \E t \in DOMAIN tasks :
        /\ isAutoReply(tasks[t].msg.headers)
        /\ tasks[t].msg.from # ""
        /\ tasks[t].pc = "done"
        /\ tasks[t].path = "ignored"
        /\ ThreadCandidates(tickets, threadIdOf(tasks[t].msg)) # {}

\* C2: every mail sendComment sends carries the X-Peppermint-AI marker that
\* isAutoReply recognises, so a notification that comes back through the
\* poller is ignored: its task creates no ticket and no comment.
C2_NotificationsNeverIngested ==
    /\ \A o \in CommentOptions :
          isAutoReply(AsInbound(sendComment(o), Raw_b).headers)
    /\ \A t \in DOMAIN tasks :
          tasks[t].msg.origin = "sendComment"
             => /\ tasks[t].pc \in {"parsing", "done", "rejected"}
                /\ tasks[t].path \in {"none", "ignored"}
                /\ tasks[t].newTicket = 0
                /\ tasks[t].newComment = 0
    /\ \A i \in DOMAIN tickets : tickets[i].email # "support@x"
    /\ \A j \in DOMAIN comments : comments[j].replyEmail # "support@x"

C2_Witness ==
    \E t \in DOMAIN tasks :
        /\ tasks[t].msg.origin = "sendComment"
        /\ tasks[t].msg.headers["in-reply-to"] = Str(Raw_a)
        /\ ExternalIdCandidates(tickets, <<Id_a>>) # {}
        /\ tasks[t].pc = "done"
        /\ tasks[t].path = "ignored"

\* C3: at most one fetchEmails is in progress at any time, whatever the
\* interleaving of timer firings and manual fetches; a getEmails call that
\* finds isFetching set returns at once: it logs the skip and touches
\* neither the mailboxes nor the store nor any task.
C3_SingleFlight ==
    /\ [](Cardinality({c \in Slots : InFetchEmails(c)}) <= 1)
    /\ [][(isFetching /\ lastCall' # lastCall /\ lastCall'.what = "skipped")
            => UNCHANGED <<storeVars, tasks, unhandled, faults, isFetching,
                           calls, unseen, queues, provider, http, now>>]_vars

C3_Witness ==
    /\ lastCall.what = "skipped"
    /\ isFetching
    /\ \E c \in Slots : calls[c].pc = "fetch" /\ calls[c].pendBody = {}
    /\ \E t \in DOMAIN tasks : tasks[t].pc = "comment"

\* C4: isFetching stays set until every message fetched in the cycle has
\* finished its processEmail call, so no processing started by one cycle
\* is still running when the next cycle begins.
C4_FlagHeldUntilProcessed ==
    /\ \A t \in DOMAIN tasks : tasks[t].pc \notin Settled => isFetching
    /\ \A t \in DOMAIN tasks :
          tasks[t].pc \notin Settled => InFetchEmails(tasks[t].by)

\* C5: the flag is set before any network call of the cycle (a call that
\* is inside fetchEmails has it set), and whenever a getEmails call that
\* set it returns, fetchEmails having completed or thrown, it is false.
C5_FlagSetAndCleared ==
    /\ [](\A c \in Slots : InFetchEmails(c) => isFetching)
    /\ [][\A c \in Slots :
             (InFetchEmails(c) /\ calls'[c].pc = "idle") => ~isFetching']_vars

C5_Witness ==
    /\ lastCall.what = "failed"
    /\ ~isFetching
    /\ \A c \in Slots : ~InFetchEmails(c)

\* C6: a mailbox whose session never emits ready, error or end does not
\* starve the scheduler: the call that waits on it can still go on, so
\* that the cycle ends and isFetching becomes false.
C6_HangDoesNotStarve ==
    \A c \in Slots :
        calls[c].pc = "hung" => ENABLED (Next /\ calls'[c] # calls[c])

\* C7: within a cycle the mailboxes are attempted one after another in list
\* order, and a mailbox that fails (configuration, authentication,
\* connection or protocol error) does not keep a later one from being
\* attempted: a cycle that completes has attempted every mailbox.
C7_FailureDoesNotStopLaterMailboxes ==
    /\ \A c \in Slots :
          calls[c].pc \notin {"idle", "findMany"}
             => /\ \A i \in DOMAIN calls[c].log : calls[c].log[i].q = i
                /\ calls[c].qi = Len(calls[c].log) + 1
                /\ calls[c].qi <= Len(calls[c].qs)
    /\ lastCall.what = "completed" => lastCall.attempted = Len(queues)

C7_Witness ==
    \E c \in Slots :
        /\ calls[c].pc = "connect"
        /\ calls[c].qi = 3
        /\ calls[c].log[1].outcome = "failed"
        /\ calls[c].log[2].outcome = "failed"
        /\ faults = 1

\* C8: no error of the ingestion pipeline (parse error, store error while
\* matching or mutating, webhook delivery error) escapes the cycle as an
\* uncaught exception or an unhandled promise rejection.
C8_NoErrorEscapes == unhandled = FALSE

\* C9: findMatchingTicket tries the layers strictly in the order thread
\* identifier, Message-ID chain, heuristic; no layer is invoked after a hit,
\* and the ticket it returns is the one found by the first layer that hit
\* (none when all three missed).
C9_LayersInOrderFirstHitWins ==
    \A t \in DOMAIN tasks :
        LET tk == tasks[t]
            n  == Len(tk.layers)
            h  == Len(tk.hits)
        IN  /\ tk.layers = SubSeq(<<1, 2, 3>>, 1, n)
            /\ h \in {n - 1, n} /\ h >= 0
            /\ \A i \in 1..h : tk.hits[i] # 0 => i = n
            /\ tk.path \in {"create", "append"}
                  => /\ h = n /\ n >= 1
                     /\ tk.matched = tk.hits[n]
                     /\ tk.hits[n] = 0 => n = 3

C9_Witness ==
    \E t \in DOMAIN tasks :
        /\ tasks[t].pc = "done"
        /\ tasks[t].layers = <<1, 2>>
        /\ tasks[t].hits[2] # 0
        /\ tasks[t].matched = tasks[t].hits[2]
        /\ HeuristicCandidates(tickets, tasks[t].msg.from,
               normalizedSubjectOf(emailSubject(tasks[t].msg)))
             \ {tasks[t].matched} # {}

\* the tickets that carried the message's X-GM-THRID before task t created
\* any ticket of its own
ExistingThreadTickets(t) ==
    ThreadCandidates(tickets, tasks[t].msg.headers["x-gm-thrid"].v)
       \ {tasks[t].newTicket}

\* C10 as stated: a non-auto-reply message (from a sender with an address)
\* whose thread identifier is the stored thread identifier of an existing
\* Ticket never reaches Layers 2 and 3, and a Comment for it is appended to
\* that ticket.
C10_ThreadMatchAlwaysComments ==
    \A t \in DOMAIN tasks :
        (/\ tasks[t].msg.from # ""
         /\ ~isAutoReply(tasks[t].msg.headers)
         /\ IsString(tasks[t].msg.headers["x-gm-thrid"])
         /\ ExistingThreadTickets(t) # {}
         /\ tasks[t].pc = "done")
           => /\ tasks[t].layers = <<1>>
              /\ tasks[t].newComment # 0
              /\ comments[tasks[t].newComment].ticketId
                    \in ExistingThreadTickets(t)

\* C10 amended: for a non-auto-reply message with a sender address whose
\* X-GM-THRID is a non-empty string equal to the threadId of an existing
\* Ticket, only Layer 1 is invoked and it returns such a ticket; when
\* processEmail completes, that ticket has received the Comment if it is
\* neither done nor locked, and otherwise a new ticket linked to it has
\* been created and no Comment.
C10_ThreadMatchRoutesByStatus ==
    \A t \in DOMAIN tasks :
        LET tk == tasks[t]
        IN  (/\ tk.msg.from # ""
             /\ ~isAutoReply(tk.msg.headers)
             /\ IsString(tk.msg.headers["x-gm-thrid"])
             /\ tk.msg.headers["x-gm-thrid"].v # <<>>
             /\ ExistingThreadTickets(t) # {}
             /\ tk.pc \notin {"parsing", "L1", "rejected"})
               => /\ tk.layers = <<1>>
                  /\ tk.matched \in ExistingThreadTickets(t)
                  /\ tk.pc = "done"
                       => IF tickets[tk.matched].status \in closedStatuses
                             \/ tickets[tk.matched].locked
                          THEN /\ tk.newComment = 0
                               /\ tk.newTicket # 0
                               /\ tickets[tk.newTicket].linked = tk.matched
                          ELSE /\ tk.newTicket = 0
                               /\ tk.newComment # 0
                               /\ comments[tk.newComment].ticketId = tk.matched

C10_Witness ==
    \E t \in DOMAIN tasks :
        /\ ~isAutoReply(tasks[t].msg.headers)
        /\ tasks[t].pc = "done"
        /\ tasks[t].layers = <<1>>
        /\ tasks[t].matched \in ExistingThreadTickets(t)
        /\ tickets[tasks[t].matched].locked
        /\ tasks[t].newTicket # 0
        /\ tickets[tasks[t].newTicket].linked = tasks[t].matched

\* C11: Layer 3 never returns a ticket that is done, marked complete or
\* locked, whatever the sender, the subject and the tickets, also when
\* sender and subject match that ticket exactly.
C11_HeuristicsSkipClosedTickets ==
    \A t \in DOMAIN tasks :
        (Len(tasks[t].hits) = 3 /\ tasks[t].hits[3] # 0)
           => LET tk == tickets[tasks[t].hits[3]]
              IN  /\ tk.status \notin closedStatuses
                  /\ tk.status \in openStatuses
                  /\ ~tk.isComplete
                  /\ ~tk.locked

C11_Witness ==
    \E t \in DOMAIN tasks :
        /\ Len(tasks[t].hits) = 3
        /\ tasks[t].hits[3] = 2
        /\ tickets[1].email = tasks[t].msg.from
        /\ tickets[1].title = emailSubject(tasks[t].msg)
        /\ tickets[1].status = "done"

RepliedToComments(t) ==
    CommentCandidates(comments, messageIdsOf(tasks[t].msg.headers))
       \ {tasks[t].newComment}

\* C13: a message whose In-Reply-To or a References entry equals, once
\* normalized, the Message-ID of a Comment of an open, unlocked ticket T1,
\* and whose thread identifier matches no ticket, gets exactly one Comment
\* with its normalized Message-ID and In-Reply-To appended to T1, and no
\* new Ticket.
C13_ReplyToCommentAppends ==
    \A t \in DOMAIN tasks : \A T1 \in DOMAIN tickets :
        (/\ tasks[t].msg.from # ""
         /\ ~isAutoReply(tasks[t].msg.headers)
         /\ ~IsString(tasks[t].msg.headers["x-gm-thrid"])
              \/ ExistingThreadTickets(t) = {}
         /\ RepliedToComments(t) # {}
         /\ \A j \in RepliedToComments(t) : comments[j].ticketId = T1
         /\ tickets[T1].status \in openStatuses
         /\ ~tickets[T1].locked
         /\ tasks[t].pc = "done")
           => /\ tasks[t].newTicket = 0
              /\ imapEmails = <<>>
              /\ tasks[t].newComment # 0
              /\ comments[tasks[t].newComment].ticketId = T1
              /\ comments[tasks[t].newComment].messageId
                    = normalizeMessageId(tasks[t].msg.messageId)
              /\ comments[tasks[t].newComment].inReplyTo
                    = normalizedInReplyTo(tasks[t].msg)
              /\ Cardinality({j \in DOMAIN comments :
                                 /\ comments[j].ticketId = T1
                                 /\ comments[j].replyEmail = tasks[t].msg.from
                                 /\ j \notin RepliedToComments(t)}) = 1

C13_Witness ==
    \E t \in DOMAIN tasks :
        /\ tasks[t].pc = "done"
        /\ tasks[t].layers = <<1, 2>>
        /\ RepliedToComments(t) # {}
        /\ tasks[t].msg.headers["in-reply-to"] = Absent
        /\ tasks[t].newComment = 2
        /\ comments[2].ticketId = 2
        /\ comments[2].messageId = Id_b
        /\ Len(tickets) = 2

C15_OneTicketPerConversation ==
    /\ Cardinality({t \in DOMAIN tasks : tasks[t].newTicket # 0}) <= 1
    /\ (Len(tasks) = 2 /\ \A t \in DOMAIN tasks : tasks[t].pc = "done")
          => \E t \in DOMAIN tasks : tasks[t].newComment # 0

\* C16: within one mailbox fetch the processing of messages is serialized:
\* the match-then-mutate sequence of one message has run to completion
\* before the match step of the next message starts.
C16_ProcessingIsSerialized ==
    Cardinality({t \in DOMAIN tasks :
                    tasks[t].pc \notin Settled \cup {"parsing"}}) <= 1

\* C17: a ticket's externalIds only grows: after any step of any
\* interleaving it holds every entry it held before; and every reply that
\* was appended as a comment and has a Message-ID has that Message-ID in
\* the ticket's externalIds once its processing is done.
C17_ExternalIdsOnlyGrow ==
    /\ [][\A i \in DOMAIN tickets :
             Range(tickets[i].externalIds) \subseteq
                Range(tickets'[i].externalIds)]_vars
    /\ [](\A t \in DOMAIN tasks :
            (/\ tasks[t].pc = "done"
             /\ tasks[t].newComment # 0
             /\ normalizeMessageId(tasks[t].msg.messageId) \notin {Null, <<>>})
               => normalizeMessageId(tasks[t].msg.messageId)
                     \in Range(tickets[tasks[t].matched].externalIds))

\* C18: adding a Message-ID to a ticket's externalIds is idempotent: no
\* ticket ever holds an entry twice, also after the same message has been
\* processed against the same ticket a second time.
C18_ExternalIdsHaveNoDuplicates ==
    \A i \in DOMAIN tickets :
        Cardinality(Range(tickets[i].externalIds)) = Len(tickets[i].externalIds)

C18_Witness ==
    \E t1, t2 \in DOMAIN tasks :
        /\ t1 < t2
        /\ tasks[t1].msg = tasks[t2].msg
        /\ tasks[t1].pc = "done" /\ tasks[t2].pc = "done"
        /\ tasks[t1].matched = tasks[t2].matched
        /\ tasks[t2].matched # 0
        /\ normalizeMessageId(tasks[t2].msg.messageId) \in Range(tasks[t2].snapExt)
        /\ tickets[tasks[t2].matched].externalIds = <<Id_a, Id_b>>

\* C19: a Gmail mailbox whose stored access token is present and whose
\* expiry is more than 300 seconds after the current time gets the stored
\* token back, with no exchange with the provider and no write to the
\* store; any other Gmail mailbox takes the refresh path (the exchange, or
\* the error for a missing refresh token).
C19_ValidTokenReturnedElseRefresh ==
    [][\A c \in Slots :
          (FindMany(c) /\ Len(queues) = 1 /\ queues[1].serviceType = "gmail") =>
              LET queue == queues[1]
              IN  IF /\ queue.accessToken # 0
                     /\ queue.expiresIn # 0
                     /\ queue.expiresIn - now > 300
                  THEN /\ calls'[c].pc = "connect"
                       /\ calls'[c].token = queue.accessToken
                       /\ queues' = queues
                       /\ provider' = provider
                  ELSE \/ calls'[c].pc = "refresh"
                       \/ /\ queue.refreshToken = 0
                          /\ calls'[c].pc = "idle"
                          /\ lastCall'.what = "completed"
                          /\ lastCall'.failed]_vars

\* C20: a successful refresh persists the new access token and its expiry,
\* and a refresh token in the provider's answer that differs from the stored
\* one replaces it (otherwise the stored one is left as it is): the stored
\* refresh token is always the latest one the provider issued.
C20_StoredRefreshTokenIsLatest ==
    [][\A c \in Slots :
          UpdateTokenOk(c) =>
              LET q == calls[c].qi
              IN  /\ queues'[q].accessToken = calls[c].token
                  /\ queues'[q].expiresIn = now + 3600
                  /\ queues'[q].refreshToken = provider[q].issued]_vars

\* what a caller can tell an error by without reading the provider's own
\* text: its class and the fixed parts of its message
ErrorKind(error) ==
    <<error.name, Head(error.message), error.message[Len(error.message)]>>

\* C21: the error getValidAccessToken raises when the exchange fails with
\* invalid_grant demands re-authentication and can be told from the error
\* it raises for a transient network or API failure.
C21_InvalidGrantRaisedDistinctly ==
    \A i \in DOMAIN lastCall.errors :
        LET error == lastCall.errors[i].error
        IN  (/\ Len(error.message) = 3
             /\ error.message = refreshFailure(error.message[2])
             /\ error.message[2] # "invalid_grant")
            => ErrorKind(error) #
                   ErrorKind([name |-> "Error",
                              message |-> refreshFailure("invalid_grant")])

\* C22: for each mailbox at most one refresh (the exchange and the update
\* of the row that follows it) is in progress at any time, whatever timer
\* firings and manual fetches arrive, and every update of the row stores
\* the access token the provider issued last: an older token never
\* replaces a newer one.
C22_OneRefreshInFlightLatestTokenStored ==
    /\ [](\A q \in DOMAIN queues :
             Cardinality({c \in Slots : /\ calls[c].pc \in {"refresh", "persist"}
                                        /\ calls[c].qi = q}) <= 1)
    /\ [][\A q \in DOMAIN queues :
             queues'[q].accessToken # queues[q].accessToken =>
                 /\ queues'[q].accessToken = provider[q].access
                 /\ queues'[q].accessToken > queues[q].accessToken]_vars

C22_Witness ==
    /\ \E i \in DOMAIN lastCall.errors :
          lastCall.errors[i].error.message = refreshFailure("update failed")
    /\ \E q \in DOMAIN queues :
          /\ queues[q].accessToken = provider[q].access
          /\ queues[q].expiresIn = now + TokenLifetime
          /\ \E c \in Slots : calls[c].pc = "connect" /\ calls[c].qi = q

\* C23: a message whose parsing or whose match/mutation step failed is not
\* marked seen by the cycle that fetched it: once that cycle has ended the
\* message is still among the unseen messages of its mailbox.
C23_FailedMessageStaysUnseen ==
    \A t \in DOMAIN tasks :
        (tasks[t].pc = "rejected" /\ calls[tasks[t].by].pc = "idle")
            => \E q \in DOMAIN unseen : tasks[t].msg \in unseen[q]

\* sendWebhookNotification calls task t made for webhook w
Attempts(t, w) == Cardinality({d \in deliveries : d.task = t /\ d.hook = w})

\* C24: for each ticket and each comment created from an inbound email,
\* exactly one delivery is attempted to every webhook that is active and
\* registered for the event (customer_ticket_created for a ticket,
\* customer_reply_received for a comment), and none to a webhook that is
\* inactive or registered for another event type.
C24_OneDeliveryPerActiveWebhook ==
    \A t \in DOMAIN tasks : \A w \in DOMAIN Webhooks :
        LET event == IF tasks[t].newTicket # 0 THEN "customer_ticket_created"
                     ELSE IF tasks[t].newComment # 0 THEN "customer_reply_received"
                     ELSE "none"
            qualifies == Webhooks[w].active /\ Webhooks[w].type = event
        IN  /\ Attempts(t, w) <= 1
            /\ ~qualifies => Attempts(t, w) = 0
            /\ (qualifies /\ tasks[t].pc \in {"deliver", "update", "done"})
                  => /\ Attempts(t, w) = 1
                     /\ \A d \in deliveries :
                           (d.task = t /\ d.hook = w) => d.event = event

C24_Witness ==
    \E t \in DOMAIN tasks :
        /\ tasks[t].pc = "done"
        /\ tasks[t].newTicket # 0
        /\ Attempts(t, 1) = 1 /\ Attempts(t, 5) = 1
        /\ Attempts(t, 2) = 0 /\ Attempts(t, 3) = 0 /\ Attempts(t, 4) = 0

\* C25: a failed delivery to one webhook leaves the attempts to the other
\* webhooks of the event made and does not fail the mutation: the step in
\* which a delivery fails rejects nothing and changes no row, and a reply
\* appended as a comment still gets its Message-ID into the ticket's
\* externalIds when the customer_reply_received delivery failed.
C25_DeliveryFailureStaysLocal ==
    /\ [][\A t \in DOMAIN tasks :
             tasks'[t].failed # tasks[t].failed
                => /\ tasks'[t].pc = "deliver"
                   /\ unhandled' = unhandled
                   /\ UNCHANGED storeVars
                   /\ \A w \in tasks[t].hooks : Attempts(t, w) = 1]_vars
    /\ [](\A t \in DOMAIN tasks :
             (/\ tasks[t].pc \in Settled
              /\ tasks[t].failed # {}
              /\ tasks[t].newComment # 0
              /\ normalizedMessageId(tasks[t].msg) \notin {Null, <<>>})
                => normalizedMessageId(tasks[t].msg)
                      \in Range(tickets[tasks[t].matched].externalIds))

\* C26: webhook dispatch is fire-and-forget for ingestion: a message whose
\* deliveries have been started goes on to its remaining steps without
\* waiting for them to finish, so an endpoint that has not answered holds
\* up no step of the processing.
C26_DispatchDoesNotBlockProcessing ==
    \A t \in DOMAIN tasks :
        tasks[t].pc = "deliver" => ENABLED Deliver(t)

\* a mailbox row with a configuration error at time t
ConfigError(queue, t) ==
    \/ /\ queue.serviceType = "gmail"
       /\ ~(queue.accessToken # 0 /\ queue.expiresIn # 0
                /\ queue.expiresIn - t > 300)
       /\ queue.refreshToken = 0
    \/ queue.serviceType = "other" /\ ~queue.password
    \/ queue.serviceType \notin {"gmail", "other"}

\* C27: a mailbox with a configuration error (a Gmail mailbox with neither
\* a still valid access token nor a refresh token, a password mailbox with
\* no password, a mailbox of an unknown kind) fails before any token
\* exchange and before any connection is opened for it, and the error
\* affects that mailbox only: the cycle attempts every mailbox and, when
\* nothing else goes wrong, logs an error for the misconfigured ones only.
C27_ConfigErrorFailsEarlyAndAlone ==
    /\ \A c \in Slots :
          calls[c].pc \in {"refresh", "persist", "hung"} \cup SessionPhases
             => ~ConfigError(calls[c].qs[calls[c].qi], now)
    /\ \A q \in DOMAIN queues :
          ConfigError(queues[q], now) => provider[q] = Grants(queues, FALSE)[q]
    /\ lastCall.what = "completed"
          => /\ lastCall.attempted = Len(queues)
             /\ \A q \in DOMAIN queues :
                   ConfigError(queues[q], now)
                      => \E i \in DOMAIN lastCall.errors :
                            lastCall.errors[i].q = q
             /\ faults = 0
                   => \A i \in DOMAIN lastCall.errors :
                         ConfigError(queues[lastCall.errors[i].q], now)

C27_Witness ==
    /\ lastCall.what = "completed"
    /\ Len(lastCall.errors) = 1
    /\ lastCall.errors[1].q = 1
    /\ lastCall.errors[1].error.message = <<"Unsupported service type">>
    /\ queues[2].serviceType = "gmail"
    /\ queues[2].accessToken = 2

\* C28: every request a non-public route serves carries a bearer token the
\* JWT check accepts or an X-API-Key that validateApiKey accepts; a request
\* with an unknown, deactivated or expired key and no valid bearer token is
\* never served.
C28_ServedRequestsAreAuthenticated ==
    (/\ \/ http.stage = "handling"
        \/ http.stage = "replied" /\ http.status = 200
     /\ http.request.route.url # "/")
        => \/ http.request.bearer = "valid"
           \/ validateApiKey(http.request, now)

\* the verdict processEmail acted on for task t in this step, if it
\* reached the auto-reply check
Classified(t) ==
    /\ tasks[t].pc = "parsing"
    /\ tasks'[t].pc \notin {"parsing", "rejected"}
    /\ tasks[t].msg.from # ""

\* C29 as stated: isAutoReply is true exactly when Auto-Submitted is
\* present with a value other than "no", or X-Auto-Response-Suppress is
\* present, or X-Peppermint-AI is present, or Precedence is bulk, list or
\* auto_reply, or X-Autoreply is yes, or X-MS-Exchange-Auto-Submissions is
\* present.
C29_AutoReplyOnPresence ==
    [][\A t \in DOMAIN tasks :
          Classified(t) =>
              LET h == tasks[t].msg.headers
              IN  (tasks'[t].path = "ignored") <=>
                     \/ h["auto-submitted"] \notin {Absent, Str(S_no)}
                     \/ h["x-auto-response-suppress"] # Absent
                     \/ h["x-peppermint-ai"] # Absent
                     \/ h["precedence"] \in {Str(S_bulk), Str(S_list), Str(S_autoreply)}
                     \/ h["x-autoreply"] = Str(S_yes)
                     \/ h["x-ms-exchange-auto-submissions"] # Absent]_vars

\* C29: isAutoReply is true exactly when Auto-Submitted is a string other
\* than "no", or X-Auto-Response-Suppress has a non-empty value, or
\* X-Peppermint-AI is "true", or Precedence is bulk, list or auto_reply, or
\* X-Autoreply is yes, or X-MS-Exchange-Auto-Submissions has a non-empty
\* value.
C29_AutoReplyOnValues ==
    [][\A t \in DOMAIN tasks :
          Classified(t) =>
              LET h == tasks[t].msg.headers
                  NonEmpty(x) == x \notin {Absent, Str(<<>>)}
              IN  (tasks'[t].path = "ignored") <=>
                     \/ h["auto-submitted"].t = "str"
                           /\ h["auto-submitted"] # Str(S_no)
                     \/ NonEmpty(h["x-auto-response-suppress"])
                     \/ h["x-peppermint-ai"] = Str(S_true)
                     \/ h["precedence"] \in {Str(S_bulk), Str(S_list), Str(S_autoreply)}
                     \/ h["x-autoreply"] = Str(S_yes)
                     \/ NonEmpty(h["x-ms-exchange-auto-submissions"])]_vars

C29_Witness ==
    \E t \in DOMAIN tasks :
        /\ tasks[t].msg.headers["x-peppermint-ai"] = Str(S_yes)
        /\ tasks[t].msg.from # ""
        /\ tasks[t].pc = "done"
        /\ tasks[t].path # "ignored"

\* events of the deliveries task t attempted
EventsOf(t) == {d.event : d \in {e \in deliveries : e.task = t}}

\* C30: a message with a valid sender that is not an auto-reply ends in
\* exactly one of two outcomes: one new Ticket with customer_ticket_created
\* notifications only, or one new Comment on an existing open ticket with
\* customer_reply_received notifications only; no message gets both a
\* ticket and a comment, and neither event is sent for the other outcome.
C30_TicketOrCommentNeverBoth ==
    \A t \in DOMAIN tasks :
        /\ ~(tasks[t].newTicket # 0 /\ tasks[t].newComment # 0)
        /\ EventsOf(t) \subseteq
              (IF tasks[t].newTicket # 0 THEN {"customer_ticket_created"}
               ELSE IF tasks[t].newComment # 0 THEN {"customer_reply_received"}
               ELSE {})
        /\ (/\ tasks[t].pc = "done"
            /\ tasks[t].msg.from # ""
            /\ ~isAutoReply(tasks[t].msg.headers))
              => \/ /\ tasks[t].newTicket \in DOMAIN tickets
                    /\ tasks[t].newComment = 0
                    /\ Cardinality({u \in DOMAIN tasks :
                           tasks[u].newTicket = tasks[t].newTicket}) = 1
                    /\ EventsOf(t) = {"customer_ticket_created"}
                 \/ /\ tasks[t].newComment \in DOMAIN comments
                    /\ tasks[t].newTicket = 0
                    /\ tasks[t].matched \in DOMAIN tickets
                    /\ tickets[tasks[t].matched].status \in openStatuses
                    /\ ~tickets[tasks[t].matched].locked
                    /\ EventsOf(t) = {"customer_reply_received"}

C30_Witness ==
    \E t \in DOMAIN tasks :
        /\ tasks[t].pc = "done"
        /\ tasks[t].newComment # 0
        /\ tasks[t].layers = <<1>>
        /\ EventsOf(t) = {"customer_reply_received"}
        /\ tickets[tasks[t].matched].status = "in_progress"

\* the identifiers a message refers to: its References entries and its
\* In-Reply-To, each normalized
ChainIds(m) ==
    LET refs == IF IsString(m.headers["references"])
                THEN Range(SplitWs(m.headers["references"].v, <<>>)) ELSE {}
        irt  == IF IsString(m.headers["in-reply-to"])
                THEN {m.headers["in-reply-to"].v} ELSE {}
    IN  {normalizeMessageId(x) : x \in refs \cup irt} \ {Null}

\* C31: Layer 2 builds its candidate set from the normalized References
\* entries plus the normalized In-Reply-To; it queries only with a non-empty
\* set; if a Comment's stored Message-ID is in the set it returns that
\* Comment's ticket, even when another Ticket's externalIds intersects the
\* set; only when no Comment matches does it return a Ticket whose
\* externalIds intersects the set, and no ticket when there is none.
C31_CommentMatchBeforeExternalIds ==
    [][\A t \in DOMAIN tasks :
          LET ids == ChainIds(tasks[t].msg)
              cm  == {j \in DOMAIN comments : comments[j].messageId \in ids}
              ex  == {i \in DOMAIN tickets :
                         Range(tickets[i].externalIds) \cap ids # {}}
          IN  /\ tasks'[t].pc \in {"L2a", "L2b"} => ids # {}
              /\ (Len(tasks[t].hits) < 2 /\ Len(tasks'[t].hits) >= 2)
                    => IF cm # {}
                       THEN tasks'[t].hits[2]
                               \in {comments[j].ticketId : j \in cm}
                       ELSE IF ex # {} THEN tasks'[t].hits[2] \in ex
                       ELSE tasks'[t].hits[2] = 0]_vars

C31_Witness ==
    \E t \in DOMAIN tasks :
        /\ tasks[t].pc = "done"
        /\ tasks[t].hits = <<0, 1>>
        /\ Len(tickets) = 2
        /\ Id_a \in Range(tickets[2].externalIds)
        /\ tickets[1].externalIds = <<>>
        /\ comments[1].ticketId = 1
        /\ comments[1].messageId \in ChainIds(tasks[t].msg)

\* C32: an absent or empty Message-ID normalizes to no identifier, and the
\* empty string is never a candidate identifier of a Layer 2 query, never
\* the stored Message-ID of a Comment and never in a ticket's externalIds.
C32_EmptyIdentifierNeverUsed ==
    /\ normalizeMessageId(Null) = Null
    /\ normalizeMessageId(<<>>) = Null
    /\ \A t \in DOMAIN tasks :
          tasks[t].pc \in {"L2a", "L2b"}
             => <<>> \notin ChainIds(tasks[t].msg)
    /\ \A j \in DOMAIN comments : comments[j].messageId # <<>>
    /\ \A i \in DOMAIN tickets : <<>> \notin Range(tickets[i].externalIds)

\* a subject with every leading reply/forward prefix, and the whitespace
\* after each, removed
RECURSIVE WithoutPrefixes(_)
WithoutPrefixes(subject) ==
    IF \E p \in SubjectPrefixes : StartsWithI(subject, p)
    THEN LET p == CHOOSE q \in SubjectPrefixes : StartsWithI(subject, q)
         IN  WithoutPrefixes(TrimLeft(SubSeq(subject, Len(p) + 1, Len(subject))))
    ELSE Trim(subject)

\* C33: for a subject made of leading reply/forward prefixes (re:, fwd:,
\* fw:, ref: in any letter case, possibly repeated, each optionally followed
\* by whitespace) and a remainder S, Layer 3 searches with S: it returns the
\* sender's open ticket whose title contains S when there is one, and
\* returns no ticket without querying when S is empty.
C33_AllPrefixesStripped ==
    [][\A t \in DOMAIN tasks :
          LET S  == WithoutPrefixes(emailSubject(tasks[t].msg))
              c  == {i \in DOMAIN tickets :
                        /\ tickets[i].email = tasks[t].msg.from
                        /\ ContainsI(tickets[i].title, S)
                        /\ tickets[i].status \in openStatuses
                        /\ ~tickets[i].isComplete
                        /\ ~tickets[i].locked}
          IN  /\ tasks'[t].pc = "L3" => S # <<>>
              /\ (Len(tasks[t].hits) < 3 /\ Len(tasks'[t].hits) = 3)
                    => IF S = <<>> \/ c = {} THEN tasks'[t].hits[3] = 0
                       ELSE tasks'[t].hits[3] \in c]_vars

\* C34: a message whose subject is absent or empty never matches a ticket
\* through Layer 3: when Layers 1 and 2 found nothing, it results in a new
\* ticket, whatever open tickets its sender has.
C34_NoSubjectNeverMatchesByHeuristics ==
    \A t \in DOMAIN tasks :
        (/\ tasks[t].msg.subject \in {Null, <<>>}
         /\ tasks[t].msg.from # ""
         /\ ~isAutoReply(tasks[t].msg.headers)
         /\ Len(tasks[t].hits) = 3
         /\ tasks[t].hits[1] = 0
         /\ tasks[t].hits[2] = 0)
           => /\ tasks[t].hits[3] = 0
              /\ tasks[t].newComment = 0
              /\ tasks[t].pc = "done" => tasks[t].newTicket # 0

\* C35: when several tickets satisfy the Layer 3 conditions for a message
\* (same originating address, title containing the normalized subject
\* case-insensitively, open status, not complete, not locked), the ticket
\* returned is the one created last.
C35_HeuristicsReturnLatestTicket ==
    [][\A t \in DOMAIN tasks :
          LET S == normalizedSubjectOf(emailSubject(tasks[t].msg))
              c == {i \in DOMAIN tickets :
                       /\ tickets[i].email = tasks[t].msg.from
                       /\ ContainsI(tickets[i].title, S)
                       /\ tickets[i].status \in openStatuses
                       /\ ~tickets[i].isComplete
                       /\ ~tickets[i].locked}
          IN  (/\ tasks[t].pc = "L3"
               /\ Len(tasks'[t].hits) = 3
               /\ Cardinality(c) >= 2)
                 => /\ tasks'[t].hits[3] \in c
                    /\ \A i \in c : i <= tasks'[t].hits[3]]_vars

C35_Witness ==
    \E t \in DOMAIN tasks :
        /\ tasks[t].pc = "done"
        /\ tasks[t].hits = <<0, 0, 2>>
        /\ tasks[t].newComment # 0
        /\ tasks[t].msg.subject = S_hi
        /\ tickets[1].title = S_hi
        /\ tickets[1].status = "needs_support"
        /\ tickets[2].status = "in_review"
        /\ comments[tasks[t].newComment].ticketId = 2

FollowUps(t) ==
    LET m  == tasks[t].msg
        gm == m.headers["x-gm-thrid"]
    IN  {i \in DOMAIN tickets \ {tasks[t].newTicket} :
            /\ tickets[i].linked # 0
            /\ \/ tickets[tickets[i].linked].status \in closedStatuses
               \/ tickets[tickets[i].linked].locked
            /\ tickets[i].status \in openStatuses
            /\ ~tickets[i].locked
            /\ \/ IsString(gm) /\ gm.v = tickets[i].threadId
               \/ ChainIds(m) \cap Range(tickets[i].externalIds) # {}}

\* C37: once a reply to a done or locked ticket T1 has created the linked
\* ticket T2, a later message of the same conversation (same thread
\* identifier, or referring to the same Message-IDs) processed while T2 is
\* open and unlocked becomes a comment on T2 and creates no ticket, so T1
\* never has more than one open follow-up ticket.
C37_FollowUpTicketCollectsConversation ==
    \A t \in DOMAIN tasks :
        (/\ tasks[t].pc = "done"
         /\ tasks[t].msg.from # ""
         /\ ~isAutoReply(tasks[t].msg.headers))
           => \A i \in FollowUps(t) :
                 /\ tasks[t].newTicket = 0
                 /\ tasks[t].newComment # 0
                 /\ comments[tasks[t].newComment].ticketId = i
                 /\ Cardinality({k \in DOMAIN tickets :
                        /\ tickets[k].linked = tickets[i].linked
                        /\ tickets[k].status \in openStatuses
                        /\ ~tickets[k].locked}) <= 1

\* C38: when the refresh exchange fails or returns no token,
\* getValidAccessToken throws and the mailbox's stored access token, expiry
\* and refresh token are what they were before the call; the row is written
\* only after a token was obtained, and with that token.
C38_FailedRefreshLeavesStoreUntouched ==
    [][/\ \A c \in Slots :
             (calls[c].pc = "refresh" /\ calls'[c].pc \notin {"refresh", "persist"})
                => /\ queues' = queues
                   /\ LET errors == loggedErrors(calls'[c].log) \o lastCall'.errors
                      IN  \E i \in DOMAIN errors :
                             /\ errors[i].q = calls[c].qi
                             /\ errors[i].error.message[1]
                                   = "Gmail token refresh failed: "
       /\ \A q \in DOMAIN queues :
             queues'[q] # queues[q]
                => \E c \in Slots :
                      /\ calls[c].pc = "persist"
                      /\ calls[c].qi = q
                      /\ calls[c].token # 0
                      /\ queues'[q].accessToken = calls[c].token]_vars

C38_Witness ==
    /\ lastCall.what = "completed"
    /\ lastCall.failed
    /\ \E i \in DOMAIN lastCall.errors :
          lastCall.errors[i].error.message
             = refreshFailure("Unable to refresh access token - no token returned.")
    /\ queues[1].accessToken = 1
    /\ queues[1].expiresIn = 1299
    /\ queues[1].refreshToken = 1
    /\ provider[1].access = 1

\* C39: a parsed message without a sender address is skipped before any
\* other step: no matching query runs, no raw-email record, Ticket or
\* Comment is created, no ticket is updated and no webhook delivery is
\* attempted; every step of its task leaves the store as it was and ends
\* the task with no layer invoked.
C39_NoSenderTouchesNothing ==
    [][\A t \in DOMAIN tasks :
          (tasks[t].msg.from = "" /\ tasks'[t] # tasks[t])
             => /\ UNCHANGED storeVars
                /\ tasks'[t].pc \in Settled
                /\ tasks'[t].pc = "done" => tasks'[t].path = "skipped"
                /\ tasks'[t].layers = <<>>
                /\ tasks'[t].hits = <<>>
                /\ tasks'[t].hooks = {}
                /\ tasks'[t].newTicket = 0
                /\ tasks'[t].newComment = 0]_vars

C39_Witness ==
    \E t \in DOMAIN tasks :
        /\ tasks[t].msg.from = ""
        /\ tasks[t].pc = "done"
        /\ tasks[t].path = "skipped"
        /\ tasks[t].layers = <<>>
        /\ ~isAutoReply(tasks[t].msg.headers)
        /\ IsString(tasks[t].msg.headers["x-gm-thrid"])
        /\ \E i \in DOMAIN tickets :
              /\ tickets[i].threadId = tasks[t].msg.headers["x-gm-thrid"].v
              /\ tickets[i].status \in openStatuses
        /\ comments # <<>>
        /\ deliveries = {}

====
